---- MODULE Spec2Model ----
(***************************************************************************)
(* Model of clipstui's file-operation planning engine:                     *)
(*   fileops_plan.py   (line parser, diff planner, validator, confirmer)   *)
(*   fileops_apply.py  (executor: creates, moves with cycle breaking,      *)
(*                      deletes)                                           *)
(*   app.py            (_apply_file_buffer / _apply_plan_confirmed)        *)
(*                                                                         *)
(* Strings are sequences of one-character strings, a path is the sequence  *)
(* of its components counted from the filesystem root "/", and a component *)
(* is a string.  Paths follow pathlib.PurePosixPath: "/" is the only       *)
(* separator, names are case sensitive, there are no symbolic links.       *)
(* Python's 0-based, half-open indices are kept; index k of a Python list  *)
(* is element k + 1 of the sequence.                                       *)
(***************************************************************************)
EXTENDS Integers, Sequences, FiniteSets, TLC

(***************************************************************************)
(* Bounds of the model.                                                    *)
(***************************************************************************)
\* longest edited buffer (in lines) drawn for the planner
MaxLines == 3
\* most operations of a hand-built plan drawn for the executor
MaxOps == 3
\* longest edited buffer drawn from the lines that fail validation
MaxBadLines == 4
\* longest text (in lines) the user leaves in the file buffer
MaxBufferLines == 2

\* the longest list of moves given to _order_moves on its own
MaxMoves == 4

\* the longest text (in characters) a line given to toggle_delete_marker
\* is made of, a marker before it not counted
MaxChars == 3

(***************************************************************************)
(* Strings.                                                                *)
(***************************************************************************)
LowerLetters ==
  <<"a","b","c","d","e","f","g","h","i","j","k","l","m",
    "n","o","p","q","r","s","t","u","v","w","x","y","z">>

UpperLetters ==
  <<"A","B","C","D","E","F","G","H","I","J","K","L","M",
    "N","O","P","Q","R","S","T","U","V","W","X","Y","Z">>

\* str.upper() on one character
UpperChar(c) ==
  IF \E i \in 1..26 : LowerLetters[i] = c
    THEN UpperLetters[CHOOSE i \in 1..26 : LowerLetters[i] = c]
    ELSE c

\* str.casefold() on one character
FoldChar(c) ==
  IF \E i \in 1..26 : UpperLetters[i] = c
    THEN LowerLetters[CHOOSE i \in 1..26 : UpperLetters[i] = c]
    ELSE c

Upper(s) == [i \in 1..Len(s) |-> UpperChar(s[i])]

Casefold(s) == [i \in 1..Len(s) |-> FoldChar(s[i])]

\* the characters str.strip() removes
Whitespace == {" ", "\t", "\n"}

RECURSIVE LStripSet(_, _)
\* str.lstrip(chars)
LStripSet(s, chars) ==
  IF s # <<>> /\ Head(s) \in chars THEN LStripSet(Tail(s), chars) ELSE s

RECURSIVE RStripSet(_, _)
\* str.rstrip(chars)
RStripSet(s, chars) ==
  IF s # <<>> /\ s[Len(s)] \in chars
    THEN RStripSet(SubSeq(s, 1, Len(s) - 1), chars)
    ELSE s

\* str.strip()
Strip(s) == LStripSet(RStripSet(s, Whitespace), Whitespace)

\* str.lstrip()
LStrip(s) == LStripSet(s, Whitespace)

\* str.startswith(prefix)
StartsWith(s, prefix) ==
  Len(s) >= Len(prefix) /\ SubSeq(s, 1, Len(prefix)) = prefix

\* s[n:]
DropFirst(s, n) == SubSeq(s, n + 1, Len(s))

RECURSIVE SplitOn(_, _)
\* str.split(sep) for a one-character separator
SplitOn(s, sep) ==
  IF \A i \in 1..Len(s) : s[i] # sep
    THEN <<s>>
    ELSE LET k == CHOOSE i \in 1..Len(s) :
                    s[i] = sep /\ \A j \in 1..(i - 1) : s[j] # sep
         IN <<SubSeq(s, 1, k - 1)>> \o SplitOn(DropFirst(s, k), sep)

RECURSIVE JoinWith(_, _)
\* sep.join(parts)
JoinWith(parts, sep) ==
  IF parts = <<>> THEN <<>>
  ELSE IF Len(parts) = 1 THEN parts[1]
  ELSE parts[1] \o sep \o JoinWith(Tail(parts), sep)

\* the elements of a sequence
Range(s) == {s[i] : i \in 1..Len(s)}

\* [x for x in s if Keep(x)]
SelectIdx(s, Keep(_)) ==
  LET F[i \in 0..Len(s)] ==
        IF i = 0 THEN <<>>
        ELSE IF Keep(i) THEN Append(F[i - 1], s[i]) ELSE F[i - 1]
  IN F[Len(s)]

(***************************************************************************)
(* Paths (pathlib on POSIX).                                               *)
(***************************************************************************)
Dot == <<".">>

DotDot == <<".", ".">>

\* Path(text).is_absolute()
IsAbsoluteText(text) == text # <<>> /\ text[1] = "/"

\* the parts of Path(text) without the anchor: empty and "." segments vanish
TextParts(text) ==
  LET segs == SplitOn(text, "/")
  IN SelectIdx(segs, LAMBDA i : segs[i] # <<>> /\ segs[i] # Dot)

RECURSIVE Resolve(_)
\* Path.resolve(strict=False) of an absolute path: ".." drops the component
\* before it and stays at "/" when there is none
Resolve(p) ==
  IF p = <<>> THEN <<>>
  ELSE LET front == Resolve(SubSeq(p, 1, Len(p) - 1))
           last == p[Len(p)]
       IN IF last = DotDot
            THEN (IF front = <<>> THEN <<>> ELSE SubSeq(front, 1, Len(front) - 1))
            ELSE Append(front, last)

\* Path.parent
Parent(p) == IF p = <<>> THEN <<>> ELSE SubSeq(p, 1, Len(p) - 1)

\* Path.name
Name(p) == IF p = <<>> THEN <<>> ELSE p[Len(p)]

\* whether path.relative_to(base) returns (it raises ValueError otherwise)
IsUnder(p, base) == Len(p) >= Len(base) /\ SubSeq(p, 1, Len(base)) = base

\* path.relative_to(base), for a path under base
RelativeTo(p, base) == DropFirst(p, Len(base))

\* str(path) of an absolute path
PathStr(p) == IF p = <<>> THEN <<"/">> ELSE <<"/">> \o JoinWith(p, <<"/">>)

\* Path.as_posix() of a relative path
AsPosix(rel) == IF rel = <<>> THEN Dot ELSE JoinWith(rel, <<"/">>)

\* the directory every plan is rooted at (an absolute, resolved path)
Root == << <<"r">> >>

(***************************************************************************)
(* fileops_plan.py: data model.                                            *)
(***************************************************************************)
\* Python's None where a path is expected: no path of the model equals it
None == << <<"None">> >>

\* "[DELETE]"
DELETE_MARKER == <<"[", "D", "E", "L", "E", "T", "E", "]">>

\* the characters _invalid_component rejects
INVALID_CHARS == {"<", ">", ":", "\"", "/", "\\", "|", "?", "*"}

Digits19 == <<"1", "2", "3", "4", "5", "6", "7", "8", "9">>

\* CON, PRN, AUX, NUL, COM1..COM9, LPT1..LPT9
RESERVED_NAMES ==
  {<<"C","O","N">>, <<"P","R","N">>, <<"A","U","X">>, <<"N","U","L">>}
  \cup {<<"C","O","M">> \o <<Digits19[i]>> : i \in 1..9}
  \cup {<<"L","P","T">> \o <<Digits19[i]>> : i \in 1..9}

PathEntry(path, is_dir) == [path |-> path, is_dir |-> is_dir]

EditedEntry(raw, path, rel, norm, is_dir_hint) ==
  [raw |-> raw, path |-> path, rel |-> rel, norm |-> norm,
   is_dir_hint |-> is_dir_hint]

DeleteMarker(raw, path, rel, norm) ==
  [raw |-> raw, path |-> path, rel |-> rel, norm |-> norm]

Operation(op_type, source, target, is_dir) ==
  [op_type |-> op_type, source |-> source, target |-> target,
   is_dir |-> is_dir]

ValidationError(message, path) == [message |-> message, path |-> path]

(***************************************************************************)
(* fileops_plan.py: line parser.                                           *)
(***************************************************************************)
\* rel.as_posix().rstrip("/")
NormalizeRel(rel) == RStripSet(AsPosix(rel), {"/"})

\* the relative path of an original entry; an entry outside the root
\* falls back to its bare name
RelToRoot(root, path) ==
  LET resolved == Resolve(path)
  IN IF IsUnder(resolved, root) THEN RelativeTo(resolved, root)
     ELSE IF resolved = <<>> THEN <<>> ELSE <<Name(resolved)>>

\* str(path).casefold()
PathKey(path) == Casefold(PathStr(path))

\* value.startswith(DELETE_MARKER): the sentinel in capitals only
IsDeleteMarkerExact(value) == StartsWith(value, DELETE_MARKER)

\* value.upper().startswith(DELETE_MARKER)
IsDeleteMarker(value) == StartsWith(Upper(value), DELETE_MARKER)

\* _parse_edited_entry without its raw.strip(): the line's own whitespace
\* reaches Path(text)
ParseEditedEntryUntrimmed(root, raw) ==
  LET is_dir_hint == raw # <<>> /\ raw[Len(raw)] \in {"/", "\\"}
      text == RStripSet(raw, {"/", "\\"})
      joined == IF IsAbsoluteText(text) THEN TextParts(text)
                ELSE root \o TextParts(text)
      path == Resolve(joined)
      rel == RelativeTo(path, root)
  IN IF text = <<>>
       THEN [ok |-> FALSE,
             error |-> ValidationError("Edited line is empty after trimming.", None)]
     ELSE IF ~IsUnder(path, root)
       THEN [ok |-> FALSE,
             error |-> ValidationError("Path escapes the current root.", path)]
     ELSE IF rel = <<>>
       THEN [ok |-> FALSE,
             error |-> ValidationError("Path resolves to the root directory.", path)]
     ELSE [ok |-> TRUE,
           entry |-> EditedEntry(raw, path, rel, NormalizeRel(rel), is_dir_hint)]

\* The outcome of _parse_edited_entry: ok with the entry, or the one error
\* it appended.
ParseEditedEntry(root, raw) ==
  LET stripped == Strip(raw)
      is_dir_hint == stripped # <<>> /\ stripped[Len(stripped)] \in {"/", "\\"}
      text == RStripSet(stripped, {"/", "\\"})
      joined == IF IsAbsoluteText(text) THEN TextParts(text)
                ELSE root \o TextParts(text)
      path == Resolve(joined)
      rel == RelativeTo(path, root)
  IN IF text = <<>>
       THEN [ok |-> FALSE,
             error |-> ValidationError("Edited line is empty after trimming.", None)]
     ELSE IF ~IsUnder(path, root)
       THEN [ok |-> FALSE,
             error |-> ValidationError("Path escapes the current root.", path)]
     ELSE IF rel = <<>>
       THEN [ok |-> FALSE,
             error |-> ValidationError("Path resolves to the root directory.", path)]
     ELSE [ok |-> TRUE,
           entry |-> EditedEntry(raw, path, rel, NormalizeRel(rel), is_dir_hint)]

\* The outcome of _parse_delete_marker on an already stripped line.
ParseDeleteMarker(root, raw) ==
  LET remainder == Strip(DropFirst(raw, Len(DELETE_MARKER)))
      parsed == ParseEditedEntry(root, remainder)
  IN IF remainder = <<>>
       THEN [ok |-> FALSE,
             error |-> ValidationError("Delete marker missing a path.", None)]
     ELSE IF ~parsed.ok
       THEN [ok |-> FALSE, error |-> parsed.error]
     ELSE [ok |-> TRUE,
           marker |-> DeleteMarker(raw, parsed.entry.path, parsed.entry.rel,
                                   parsed.entry.norm)]

\* the line loop without "if not stripped: continue": a blank line reaches
\* _parse_edited_entry
ParseLinesKeepingBlanks(root, edited_lines) ==
  LET F[k \in 0..Len(edited_lines)] ==
        IF k = 0
          THEN [edited_entries |-> <<>>, delete_markers |-> <<>>,
                parse_errors |-> <<>>]
        ELSE
          LET acc == F[k - 1]
              raw == edited_lines[k]
              stripped == Strip(raw)
          IN IF IsDeleteMarker(stripped)
               THEN LET m == ParseDeleteMarker(root, stripped)
                    IN IF m.ok
                         THEN [acc EXCEPT !.delete_markers = Append(@, m.marker)]
                         ELSE [acc EXCEPT !.parse_errors = Append(@, m.error)]
             ELSE LET e == ParseEditedEntry(root, raw)
                  IN IF e.ok
                       THEN [acc EXCEPT !.edited_entries = Append(@, e.entry)]
                       ELSE [acc EXCEPT !.parse_errors = Append(@, e.error)]
  IN F[Len(edited_lines)]

\* the line loop leaving at the first normal line that does not parse: the
\* lines after it are not read
ParseLinesStoppingAtFault(root, edited_lines) ==
  LET faulty == {k \in 1..Len(edited_lines) :
                   /\ Strip(edited_lines[k]) # <<>>
                   /\ ~IsDeleteMarker(Strip(edited_lines[k]))
                   /\ ~ParseEditedEntry(root, edited_lines[k]).ok}
      last == IF faulty = {} THEN Len(edited_lines)
              ELSE CHOOSE k \in faulty : \A m \in faulty : k <= m
      F[k \in 0..last] ==
        IF k = 0
          THEN [edited_entries |-> <<>>, delete_markers |-> <<>>,
                parse_errors |-> <<>>]
        ELSE
          LET acc == F[k - 1]
              raw == edited_lines[k]
              stripped == Strip(raw)
          IN IF stripped = <<>> THEN acc
             ELSE IF IsDeleteMarker(stripped)
               THEN LET m == ParseDeleteMarker(root, stripped)
                    IN IF m.ok
                         THEN [acc EXCEPT !.delete_markers = Append(@, m.marker)]
                         ELSE [acc EXCEPT !.parse_errors = Append(@, m.error)]
             ELSE LET e == ParseEditedEntry(root, raw)
                  IN IF e.ok
                       THEN [acc EXCEPT !.edited_entries = Append(@, e.entry)]
                       ELSE [acc EXCEPT !.parse_errors = Append(@, e.error)]
  IN F[last]

\* The line loop of compute_plan: the edited entries, the delete markers and
\* the parse errors, each in line order.
ParseLines(root, edited_lines) ==
  LET F[k \in 0..Len(edited_lines)] ==
        IF k = 0
          THEN [edited_entries |-> <<>>, delete_markers |-> <<>>,
                parse_errors |-> <<>>]
        ELSE
          LET acc == F[k - 1]
              raw == edited_lines[k]
              stripped == Strip(raw)
          IN IF stripped = <<>> THEN acc
             ELSE IF IsDeleteMarker(stripped)
               THEN LET m == ParseDeleteMarker(root, stripped)
                    IN IF m.ok
                         THEN [acc EXCEPT !.delete_markers = Append(@, m.marker)]
                         ELSE [acc EXCEPT !.parse_errors = Append(@, m.error)]
             ELSE LET e == ParseEditedEntry(root, raw)
                  IN IF e.ok
                       THEN [acc EXCEPT !.edited_entries = Append(@, e.entry)]
                       ELSE [acc EXCEPT !.parse_errors = Append(@, e.error)]
  IN F[Len(edited_lines)]

(***************************************************************************)
(* difflib.SequenceMatcher(a, b, autojunk=False), as compute_plan uses it. *)
(***************************************************************************)
\* find_longest_match(alo, ahi, blo, bhi): the longest common block of
\* a[alo:ahi] and b[blo:bhi], the one starting earliest in a, then earliest
\* in b; size 0 at (alo, blo) when there is none.  Nothing is junk.
FindLongestMatch(a, b, alo, ahi, blo, bhi) ==
  LET run[i \in alo..ahi, j \in blo..bhi] ==
        IF i = ahi \/ j = bhi THEN 0
        ELSE IF a[i + 1] = b[j + 1] THEN 1 + run[i + 1, j + 1]
        ELSE 0
      cells == (alo..(ahi - 1)) \X (blo..(bhi - 1))
      hits == {c \in cells : run[c[1], c[2]] > 0}
  IN IF hits = {} THEN [i |-> alo, j |-> blo, size |-> 0]
     ELSE
       LET best == CHOOSE c \in hits :
                     \A d \in hits :
                       \/ run[c[1], c[2]] > run[d[1], d[2]]
                       \/ /\ run[c[1], c[2]] = run[d[1], d[2]]
                          /\ \/ c[1] < d[1]
                             \/ c[1] = d[1] /\ c[2] <= d[2]
       IN [i |-> best[1], j |-> best[2], size |-> run[best[1], best[2]]]

RECURSIVE MatchingBlocksIn(_, _, _, _, _, _)
\* get_matching_blocks: the blocks found in a[alo:ahi], b[blo:bhi], sorted.
\* Blocks are maximal, so no two of them are adjacent and the pass that
\* merges adjacent blocks changes nothing.
MatchingBlocksIn(a, b, alo, ahi, blo, bhi) ==
  LET x == FindLongestMatch(a, b, alo, ahi, blo, bhi)
  IN IF x.size = 0 THEN <<>>
     ELSE (IF alo < x.i /\ blo < x.j
             THEN MatchingBlocksIn(a, b, alo, x.i, blo, x.j) ELSE <<>>)
          \o <<x>>
          \o (IF x.i + x.size < ahi /\ x.j + x.size < bhi
                THEN MatchingBlocksIn(a, b, x.i + x.size, ahi, x.j + x.size, bhi)
                ELSE <<>>)

\* get_matching_blocks(), with its closing (len(a), len(b), 0) block
GetMatchingBlocks(a, b) ==
  Append(MatchingBlocksIn(a, b, 0, Len(a), 0, Len(b)),
         [i |-> Len(a), j |-> Len(b), size |-> 0])

\* get_opcodes(): (tag, i1, i2, j1, j2) for a[i1:i2] and b[j1:j2]
GetOpcodes(a, b) ==
  LET blocks == GetMatchingBlocks(a, b)
      F[k \in 0..Len(blocks)] ==
        IF k = 0 THEN [i |-> 0, j |-> 0, answer |-> <<>>]
        ELSE
          LET acc == F[k - 1]
              blk == blocks[k]
              tag == IF acc.i < blk.i /\ acc.j < blk.j THEN "replace"
                     ELSE IF acc.i < blk.i THEN "delete"
                     ELSE IF acc.j < blk.j THEN "insert"
                     ELSE ""
              gap == IF tag = "" THEN <<>>
                     ELSE << [tag |-> tag, i1 |-> acc.i, i2 |-> blk.i,
                              j1 |-> acc.j, j2 |-> blk.j] >>
              same == IF blk.size = 0 THEN <<>>
                      ELSE << [tag |-> "equal", i1 |-> blk.i,
                               i2 |-> blk.i + blk.size, j1 |-> blk.j,
                               j2 |-> blk.j + blk.size] >>
          IN [i |-> blk.i + blk.size, j |-> blk.j + blk.size,
              answer |-> acc.answer \o gap \o same]
  IN F[Len(blocks)].answer

(***************************************************************************)
(* fileops_plan.py: diff planner.                                          *)
(***************************************************************************)
\* the opcode loop with "create_indices.extend(edit_block)" in its replace
\* branch: the edited entries paired with a move are created as well
ClassifyOpcodesCreatingPaired(opcodes, n_original) ==
  LET F[k \in 0..Len(opcodes)] ==
        IF k = 0
          THEN [state |-> [i \in 1..n_original |-> "keep"],
                move_target |-> [i \in 1..n_original |-> -1],
                create_indices |-> <<>>]
        ELSE
          LET acc == F[k - 1]
              op == opcodes[k]
              orig_len == op.i2 - op.i1
              edit_len == op.j2 - op.j1
              pair_count == IF orig_len < edit_len THEN orig_len ELSE edit_len
          IN IF op.tag = "equal" THEN acc
             ELSE IF op.tag = "delete"
               THEN [acc EXCEPT !.state =
                       [i \in 1..n_original |->
                          IF i - 1 >= op.i1 /\ i - 1 < op.i2 THEN "delete" ELSE @[i]]]
             ELSE IF op.tag = "insert"
               THEN [acc EXCEPT !.create_indices =
                       @ \o [x \in 1..edit_len |-> op.j1 + x - 1]]
             ELSE \* replace
               [state |->
                  [i \in 1..n_original |->
                     IF i - 1 >= op.i1 /\ i - 1 < op.i1 + pair_count THEN "move"
                     ELSE IF i - 1 >= op.i1 + pair_count /\ i - 1 < op.i2 THEN "delete"
                     ELSE acc.state[i]],
                move_target |->
                  [i \in 1..n_original |->
                     IF i - 1 >= op.i1 /\ i - 1 < op.i1 + pair_count
                       THEN op.j1 + (i - 1 - op.i1)
                       ELSE acc.move_target[i]],
                create_indices |->
                  acc.create_indices
                  \o [x \in 1..edit_len |-> op.j1 + x - 1]]
  IN F[Len(opcodes)]

\* the state, move_target and create_indices lists after the opcode loop;
\* move_target holds -1 for None
ClassifyOpcodes(opcodes, n_original) ==
  LET F[k \in 0..Len(opcodes)] ==
        IF k = 0
          THEN [state |-> [i \in 1..n_original |-> "keep"],
                move_target |-> [i \in 1..n_original |-> -1],
                create_indices |-> <<>>]
        ELSE
          LET acc == F[k - 1]
              op == opcodes[k]
              orig_len == op.i2 - op.i1
              edit_len == op.j2 - op.j1
              pair_count == IF orig_len < edit_len THEN orig_len ELSE edit_len
          IN IF op.tag = "equal" THEN acc
             ELSE IF op.tag = "delete"
               THEN [acc EXCEPT !.state =
                       [i \in 1..n_original |->
                          IF i - 1 >= op.i1 /\ i - 1 < op.i2 THEN "delete" ELSE @[i]]]
             ELSE IF op.tag = "insert"
               THEN [acc EXCEPT !.create_indices =
                       @ \o [x \in 1..edit_len |-> op.j1 + x - 1]]
             ELSE \* replace
               [state |->
                  [i \in 1..n_original |->
                     IF i - 1 >= op.i1 /\ i - 1 < op.i1 + pair_count THEN "move"
                     ELSE IF i - 1 >= op.i1 + pair_count /\ i - 1 < op.i2 THEN "delete"
                     ELSE acc.state[i]],
                move_target |->
                  [i \in 1..n_original |->
                     IF i - 1 >= op.i1 /\ i - 1 < op.i1 + pair_count
                       THEN op.j1 + (i - 1 - op.i1)
                       ELSE acc.move_target[i]],
                create_indices |->
                  acc.create_indices
                  \o [x \in 1..(edit_len - pair_count) |-> op.j1 + pair_count + x - 1]]
  IN F[Len(opcodes)]

\* norm_to_index.get(norm): the last original entry with that key, -1 for None
NormToIndex(original_norms, norm) ==
  LET hits == {i \in 1..Len(original_norms) : original_norms[i] = norm}
  IN IF hits = {} THEN -1
     ELSE (CHOOSE i \in hits : \A h \in hits : h <= i) - 1

\* the delete-marker loop without its three "continue": a marker that
\* names an original entry forces it to delete, conflict or not
ApplyDeleteMarkersForcing(delete_markers, original_norms, edited_norm_set, state0, errors0) ==
  LET F[k \in 0..Len(delete_markers)] ==
        IF k = 0 THEN [state |-> state0, parse_errors |-> errors0]
        ELSE
          LET acc == F[k - 1]
              marker == delete_markers[k]
              idx == NormToIndex(original_norms, marker.norm)
              forced == [acc EXCEPT !.state[idx + 1] = "delete"]
          IN IF idx = -1
               THEN [acc EXCEPT !.parse_errors = Append(@,
                       ValidationError("Delete marker does not match existing entry.",
                                       marker.path))]
             ELSE IF marker.norm \in edited_norm_set
               THEN [forced EXCEPT !.parse_errors = Append(@,
                       ValidationError("Delete marker conflicts with an edited entry.",
                                       marker.path))]
             ELSE IF acc.state[idx + 1] = "move"
               THEN [forced EXCEPT !.parse_errors = Append(@,
                       ValidationError("Delete marker conflicts with a rename/move.",
                                       marker.path))]
             ELSE forced
  IN F[Len(delete_markers)]

\* the delete-marker loop with 'state[idx] != "keep"' for
\* 'state[idx] == "move"': a marker on an entry the alignment already
\* deletes is reported as a conflict
ApplyDeleteMarkersKeepOnly(delete_markers, original_norms, edited_norm_set, state0, errors0) ==
  LET F[k \in 0..Len(delete_markers)] ==
        IF k = 0 THEN [state |-> state0, parse_errors |-> errors0]
        ELSE
          LET acc == F[k - 1]
              marker == delete_markers[k]
              idx == NormToIndex(original_norms, marker.norm)
          IN IF idx = -1
               THEN [acc EXCEPT !.parse_errors = Append(@,
                       ValidationError("Delete marker does not match existing entry.",
                                       marker.path))]
             ELSE IF marker.norm \in edited_norm_set
               THEN [acc EXCEPT !.parse_errors = Append(@,
                       ValidationError("Delete marker conflicts with an edited entry.",
                                       marker.path))]
             ELSE IF acc.state[idx + 1] # "keep"
               THEN [acc EXCEPT !.parse_errors = Append(@,
                       ValidationError("Delete marker conflicts with a rename/move.",
                                       marker.path))]
             ELSE [acc EXCEPT !.state[idx + 1] = "delete"]
  IN F[Len(delete_markers)]

\* The delete-marker loop of compute_plan: the state list and the parse
\* errors after it.
ApplyDeleteMarkers(delete_markers, original_norms, edited_norm_set, state0, errors0) ==
  LET F[k \in 0..Len(delete_markers)] ==
        IF k = 0 THEN [state |-> state0, parse_errors |-> errors0]
        ELSE
          LET acc == F[k - 1]
              marker == delete_markers[k]
              idx == NormToIndex(original_norms, marker.norm)
          IN IF idx = -1
               THEN [acc EXCEPT !.parse_errors = Append(@,
                       ValidationError("Delete marker does not match existing entry.",
                                       marker.path))]
             ELSE IF marker.norm \in edited_norm_set
               THEN [acc EXCEPT !.parse_errors = Append(@,
                       ValidationError("Delete marker conflicts with an edited entry.",
                                       marker.path))]
             ELSE IF acc.state[idx + 1] = "move"
               THEN [acc EXCEPT !.parse_errors = Append(@,
                       ValidationError("Delete marker conflicts with a rename/move.",
                                       marker.path))]
             ELSE [acc EXCEPT !.state[idx + 1] = "delete"]
  IN F[Len(delete_markers)]

\* the operations of the original entries with Delete built as
\* Operation(DELETE, source=entry.path): is_dir keeps its default, False
EmitOriginalOpsDeleteUnflagged(original_entries, edited_entries, state, move_target) ==
  LET F[k \in 0..Len(original_entries)] ==
        IF k = 0 THEN <<>>
        ELSE
          LET entry == original_entries[k]
          IN IF state[k] = "move"
               THEN IF move_target[k] = -1 THEN F[k - 1]
                    ELSE LET target_entry == edited_entries[move_target[k] + 1]
                         IN IF PathKey(entry.path) = PathKey(target_entry.path)
                              THEN F[k - 1]
                              ELSE Append(F[k - 1],
                                     Operation("move", entry.path, target_entry.path,
                                               entry.is_dir))
             ELSE IF state[k] = "delete"
               THEN Append(F[k - 1], Operation("delete", entry.path, None, FALSE))
             ELSE F[k - 1]
  IN F[Len(original_entries)]

\* The operations compute_plan emits for the original entries, in entry
\* order.
EmitOriginalOps(original_entries, edited_entries, state, move_target) ==
  LET F[k \in 0..Len(original_entries)] ==
        IF k = 0 THEN <<>>
        ELSE
          LET entry == original_entries[k]
          IN IF state[k] = "move"
               THEN IF move_target[k] = -1 THEN F[k - 1]
                    ELSE LET target_entry == edited_entries[move_target[k] + 1]
                         IN IF PathKey(entry.path) = PathKey(target_entry.path)
                              THEN F[k - 1]
                              ELSE Append(F[k - 1],
                                     Operation("move", entry.path, target_entry.path,
                                               entry.is_dir))
             ELSE IF state[k] = "delete"
               THEN Append(F[k - 1], Operation("delete", entry.path, None, entry.is_dir))
             ELSE F[k - 1]
  IN F[Len(original_entries)]

\* The create operations with the created path given as source as well.
EmitCreateOpsNamingSource(edited_entries, create_indices) ==
  [k \in 1..Len(create_indices) |->
     LET entry == edited_entries[create_indices[k] + 1]
     IN Operation(IF entry.is_dir_hint THEN "create_dir" ELSE "create_file",
                  entry.path, entry.path, entry.is_dir_hint)]

\* The create operations compute_plan emits, in create_indices order.
EmitCreateOps(edited_entries, create_indices) ==
  [k \in 1..Len(create_indices) |->
     LET entry == edited_entries[create_indices[k] + 1]
     IN Operation(IF entry.is_dir_hint THEN "create_dir" ELSE "create_file",
                  None, entry.path, entry.is_dir_hint)]

\* compute_plan from "operations: list[Operation] = []" on: the plan of the
\* parsed lines, the classified entries and the marked deletes
EmitPlan(root, original_entries, parsed, classified, marked) ==
  [root |-> root,
   operations |->
     EmitOriginalOps(original_entries, parsed.edited_entries, marked.state,
                     classified.move_target)
     \o EmitCreateOps(parsed.edited_entries, classified.create_indices),
   original_entries |-> original_entries,
   edited_entries |-> parsed.edited_entries,
   delete_markers |-> parsed.delete_markers,
   parse_errors |-> marked.parse_errors]

\* compute_plan from "norm_to_index = ..." on
MarkAndEmit(root, original_entries, original_norms, edited_norms, parsed, classified) ==
  EmitPlan(root, original_entries, parsed, classified,
           ApplyDeleteMarkers(parsed.delete_markers, original_norms,
                              Range(edited_norms), classified.state,
                              parsed.parse_errors))

\* compute_plan from "matcher = SequenceMatcher(...)" on
AlignAndEmit(root, original_entries, original_norms, edited_norms, parsed) ==
  MarkAndEmit(root, original_entries, original_norms, edited_norms, parsed,
              ClassifyOpcodes(GetOpcodes(original_norms, edited_norms),
                              Len(original_entries)))

\* compute_plan from "edited_norms = ..." on
PlanParsed(root, original_entries, parsed) ==
  AlignAndEmit(root, original_entries,
               [i \in 1..Len(original_entries) |->
                  NormalizeRel(RelToRoot(root, original_entries[i].path))],
               [i \in 1..Len(parsed.edited_entries) |-> parsed.edited_entries[i].norm],
               parsed)

\* compute_plan(root, original_entries, edited_lines); root is resolved
compute_plan(root, original_entries, edited_lines) ==
  PlanParsed(root, original_entries, ParseLines(root, edited_lines))

(***************************************************************************)
(* The filesystem: a function from the paths that exist to what is there,  *)
(* [kind |-> "file", content |-> c] or [kind |-> "dir", content |-> ""].   *)
(***************************************************************************)
\* Path.exists()
Exists(fs, p) == p \in DOMAIN fs

\* Path.is_dir()
IsDir(fs, p) == p \in DOMAIN fs /\ fs[p].kind = "dir"

\* the paths strictly below p
Descendants(fs, p) == {q \in DOMAIN fs : q # p /\ IsUnder(q, p)}

(***************************************************************************)
(* fileops_plan.py: validator and confirmation extractor.                  *)
(***************************************************************************)
\* ord(char) < 32
IsControlChar(c) == c \in {"\t", "\n", "\r"}

\* _invalid_component(part): the message, or "" for None
InvalidComponent(part) ==
  IF part = <<>> \/ part = Dot \/ part = DotDot
    THEN "Path component is invalid."
  ELSE IF part[Len(part)] \in {" ", "."}
    THEN "Path component ends with a space or dot."
  ELSE IF \E i \in 1..Len(part) : part[i] \in INVALID_CHARS \/ IsControlChar(part[i])
    THEN "Path component contains invalid characters."
  ELSE LET trimmed == RStripSet(part, {" ", "."})
       IN IF trimmed = <<>> THEN "Path component is invalid."
          ELSE IF Upper(SplitOn(trimmed, ".")[1]) \in RESERVED_NAMES
            THEN "Path component uses a reserved name."
          ELSE ""

\* _validate_relative_path(root, path): the message, or "" for None
ValidateRelativePath(root, path) ==
  LET resolved == Resolve(path)
      rel == RelativeTo(resolved, root)
      bad == {i \in 1..Len(rel) : InvalidComponent(rel[i]) # ""}
  IN IF ~IsUnder(resolved, root) THEN "Path escapes the current root."
     ELSE IF rel = <<>> THEN "Path resolves to the root directory."
     ELSE IF bad = {} THEN ""
     ELSE InvalidComponent(rel[CHOOSE i \in bad : \A j \in bad : i <= j])

\* _is_within_root(root, path)
IsWithinRoot(root, path) == IsUnder(Resolve(path), root)

\* _is_relative_to(path, base)
IsRelativeTo(path, base) == IsUnder(Resolve(path), Resolve(base))

\* the loop of _planned_dirs over one CreateDir target: the target and its
\* ancestors up to the root (or up to "/" when the target is outside it)
AncestorsUpTo(root, target) ==
  {SubSeq(target, 1, n) : n \in 0..Len(target)}
  \ (IF IsUnder(target, root)
       THEN {SubSeq(target, 1, n) : n \in 0..(Len(root) - 1)}
       ELSE {})

\* _planned_dirs(root, original, operations): a set of path keys
PlannedDirs(root, original, operations) ==
  {PathKey(root)}
  \cup {PathKey(Resolve(original[i].path)) :
          i \in {k \in 1..Len(original) : original[k].is_dir}}
  \cup UNION {{PathKey(d) : d \in AncestorsUpTo(root, Resolve(operations[i].target))} :
                i \in {k \in 1..Len(operations) :
                         operations[k].op_type = "create_dir"
                         /\ operations[k].target # None}}

\* the loop over the edited entries looking for a duplicate among the
\* entries up to and including the one at hand
EditedEntryErrorsCountingSelf(root, edited_entries) ==
  LET F[k \in 0..Len(edited_entries)] ==
        IF k = 0 THEN <<>>
        ELSE
          LET entry == edited_entries[k]
              dup == \E j \in 1..k :
                       PathKey(edited_entries[j].path) = PathKey(entry.path)
              name_error == ValidateRelativePath(root, entry.path)
          IN F[k - 1]
             \o (IF dup THEN <<ValidationError("Duplicate edited path.", entry.path)>>
                 ELSE <<>>)
             \o (IF name_error # "" THEN <<ValidationError(name_error, entry.path)>>
                 ELSE <<>>)
  IN F[Len(edited_entries)]

\* the errors of validate_plan's loop over the edited entries
EditedEntryErrors(root, edited_entries) ==
  LET F[k \in 0..Len(edited_entries)] ==
        IF k = 0 THEN <<>>
        ELSE
          LET entry == edited_entries[k]
              dup == \E j \in 1..(k - 1) :
                       PathKey(edited_entries[j].path) = PathKey(entry.path)
              name_error == ValidateRelativePath(root, entry.path)
          IN F[k - 1]
             \o (IF dup THEN <<ValidationError("Duplicate edited path.", entry.path)>>
                 ELSE <<>>)
             \o (IF name_error # "" THEN <<ValidationError(name_error, entry.path)>>
                 ELSE <<>>)
  IN F[Len(edited_entries)]

\* the errors of validate_plan's loop over the operations' targets
DuplicateTargetErrors(operations) ==
  LET F[k \in 0..Len(operations)] ==
        IF k = 0 THEN <<>>
        ELSE
          LET op == operations[k]
              dup == \E j \in 1..(k - 1) :
                       /\ operations[j].target # None
                       /\ PathKey(operations[j].target) = PathKey(op.target)
          IN IF op.target # None /\ dup
               THEN Append(F[k - 1], ValidationError("Duplicate target path.", op.target))
               ELSE F[k - 1]
  IN F[Len(operations)]

\* the errors of validate_plan's last loop when the move into itself is
\* looked for in every Move, whatever its is_dir flag
OperationErrorsAnyMove(root, planned_dirs, fs, op) ==
  LET places ==
        (IF op.source # None /\ ~IsWithinRoot(root, op.source)
           THEN <<ValidationError("Source is outside the current root.", op.source)>>
           ELSE <<>>)
        \o (IF op.target # None /\ ~IsWithinRoot(root, op.target)
              THEN <<ValidationError("Target is outside the current root.", op.target)>>
              ELSE <<>>)
      makes == op.op_type \in {"move", "create_file", "create_dir"}
      parent == Parent(op.target)
      parents ==
        IF makes /\ PathKey(parent) \notin planned_dirs /\ ~Exists(fs, parent)
          THEN <<ValidationError("Target parent does not exist.", op.target)>>
          ELSE <<>>
      moving ==
        IF op.op_type = "move" /\ op.source # None /\ op.target # None
          THEN (IF IsRelativeTo(op.target, op.source)
                  THEN <<ValidationError("Cannot move a directory into itself.", op.target)>>
                  ELSE <<>>)
               \o (IF Exists(fs, op.target) /\ op.is_dir
                     THEN <<ValidationError("Target directory already exists.", op.target)>>
                   ELSE IF Exists(fs, op.target) /\ IsDir(fs, op.target)
                     THEN <<ValidationError("Target is an existing directory.", op.target)>>
                   ELSE <<>>)
          ELSE <<>>
      creating ==
        IF op.op_type = "create_file" /\ op.target # None /\ Exists(fs, op.target)
          THEN <<ValidationError("Target file already exists.", op.target)>>
        ELSE IF /\ op.op_type = "create_dir" /\ op.target # None
                /\ Exists(fs, op.target) /\ ~IsDir(fs, op.target)
          THEN <<ValidationError("Target exists and is not a directory.", op.target)>>
        ELSE <<>>
  IN IF makes /\ op.target = None THEN places
     ELSE places \o parents \o moving \o creating

\* the errors of validate_plan's last loop when a file that is in the way
\* stops any Move and a directory that is in the way stops a file Move only
OperationErrorsSparingDirs(root, planned_dirs, fs, op) ==
  LET places ==
        (IF op.source # None /\ ~IsWithinRoot(root, op.source)
           THEN <<ValidationError("Source is outside the current root.", op.source)>>
           ELSE <<>>)
        \o (IF op.target # None /\ ~IsWithinRoot(root, op.target)
              THEN <<ValidationError("Target is outside the current root.", op.target)>>
              ELSE <<>>)
      makes == op.op_type \in {"move", "create_file", "create_dir"}
      parent == Parent(op.target)
      parents ==
        IF makes /\ PathKey(parent) \notin planned_dirs /\ ~Exists(fs, parent)
          THEN <<ValidationError("Target parent does not exist.", op.target)>>
          ELSE <<>>
      moving ==
        IF op.op_type = "move" /\ op.source # None /\ op.target # None
          THEN (IF op.is_dir /\ IsRelativeTo(op.target, op.source)
                  THEN <<ValidationError("Cannot move a directory into itself.", op.target)>>
                  ELSE <<>>)
               \o (IF Exists(fs, op.target) /\ op.is_dir /\ ~IsDir(fs, op.target)
                     THEN <<ValidationError("Target directory already exists.", op.target)>>
                   ELSE IF Exists(fs, op.target) /\ IsDir(fs, op.target)
                     THEN <<ValidationError("Target is an existing directory.", op.target)>>
                   ELSE <<>>)
          ELSE <<>>
      creating ==
        IF op.op_type = "create_file" /\ op.target # None /\ Exists(fs, op.target)
          THEN <<ValidationError("Target file already exists.", op.target)>>
        ELSE IF /\ op.op_type = "create_dir" /\ op.target # None
                /\ Exists(fs, op.target) /\ ~IsDir(fs, op.target)
          THEN <<ValidationError("Target exists and is not a directory.", op.target)>>
        ELSE <<>>
  IN IF makes /\ op.target = None THEN places
     ELSE places \o parents \o moving \o creating

\* the errors validate_plan's last loop reports for one operation
OperationErrors(root, planned_dirs, fs, op) ==
  LET places ==
        (IF op.source # None /\ ~IsWithinRoot(root, op.source)
           THEN <<ValidationError("Source is outside the current root.", op.source)>>
           ELSE <<>>)
        \o (IF op.target # None /\ ~IsWithinRoot(root, op.target)
              THEN <<ValidationError("Target is outside the current root.", op.target)>>
              ELSE <<>>)
      makes == op.op_type \in {"move", "create_file", "create_dir"}
      parent == Parent(op.target)
      parents ==
        IF makes /\ PathKey(parent) \notin planned_dirs /\ ~Exists(fs, parent)
          THEN <<ValidationError("Target parent does not exist.", op.target)>>
          ELSE <<>>
      moving ==
        IF op.op_type = "move" /\ op.source # None /\ op.target # None
          THEN (IF op.is_dir /\ IsRelativeTo(op.target, op.source)
                  THEN <<ValidationError("Cannot move a directory into itself.", op.target)>>
                  ELSE <<>>)
               \o (IF Exists(fs, op.target) /\ op.is_dir
                     THEN <<ValidationError("Target directory already exists.", op.target)>>
                   ELSE IF Exists(fs, op.target) /\ IsDir(fs, op.target)
                     THEN <<ValidationError("Target is an existing directory.", op.target)>>
                   ELSE <<>>)
          ELSE <<>>
      creating ==
        IF op.op_type = "create_file" /\ op.target # None /\ Exists(fs, op.target)
          THEN <<ValidationError("Target file already exists.", op.target)>>
        ELSE IF /\ op.op_type = "create_dir" /\ op.target # None
                /\ Exists(fs, op.target) /\ ~IsDir(fs, op.target)
          THEN <<ValidationError("Target exists and is not a directory.", op.target)>>
        ELSE <<>>
  IN IF makes /\ op.target = None THEN places
     ELSE places \o parents \o moving \o creating

\* validate_plan returning at the first group of checks that finds
\* anything
validate_plan_short_circuit(plan, fs) ==
  LET root == Resolve(plan.root)
      planned_dirs == PlannedDirs(root, plan.original_entries, plan.operations)
      F[k \in 0..Len(plan.operations)] ==
        IF k = 0 THEN <<>>
        ELSE F[k - 1] \o OperationErrors(root, planned_dirs, fs, plan.operations[k])
      edited == EditedEntryErrors(root, plan.edited_entries)
      targets == DuplicateTargetErrors(plan.operations)
  IN IF plan.parse_errors # <<>> THEN plan.parse_errors
     ELSE IF edited # <<>> THEN edited
     ELSE IF targets # <<>> THEN targets
     ELSE F[Len(plan.operations)]

\* validate_plan(plan), reading the filesystem fs
validate_plan(plan, fs) ==
  LET root == Resolve(plan.root)
      planned_dirs == PlannedDirs(root, plan.original_entries, plan.operations)
      F[k \in 0..Len(plan.operations)] ==
        IF k = 0 THEN <<>>
        ELSE F[k - 1] \o OperationErrors(root, planned_dirs, fs, plan.operations[k])
  IN plan.parse_errors
     \o EditedEntryErrors(root, plan.edited_entries)
     \o DuplicateTargetErrors(plan.operations)
     \o F[Len(plan.operations)]

Confirmation(operation, reason) == [operation |-> operation, reason |-> reason]

\* collect_confirmations asking for every move whose target exists, a
\* directory move and a move onto a directory included
CollectConfirmationsAnyCollision(plan, fs) ==
  LET ops == plan.operations
      F[k \in 0..Len(ops)] ==
        IF k = 0 THEN <<>>
        ELSE
          LET op == ops[k]
          IN IF op.op_type = "delete"
               THEN Append(F[k - 1], Confirmation(op, "Confirm delete"))
             ELSE IF /\ op.op_type = "move"
                     /\ op.target # None /\ Exists(fs, op.target) /\ op.source # None
               THEN Append(F[k - 1], Confirmation(op, "Confirm overwrite"))
             ELSE F[k - 1]
  IN F[Len(ops)]

\* collect_confirmations(plan), reading the filesystem fs
collect_confirmations(plan, fs) ==
  LET ops == plan.operations
      F[k \in 0..Len(ops)] ==
        IF k = 0 THEN <<>>
        ELSE
          LET op == ops[k]
          IN IF op.op_type = "delete"
               THEN Append(F[k - 1], Confirmation(op, "Confirm delete"))
             ELSE IF /\ op.op_type = "move"
                     /\ op.target # None /\ Exists(fs, op.target) /\ op.source # None
                     /\ ~op.is_dir /\ ~IsDir(fs, op.target)
               THEN Append(F[k - 1], Confirmation(op, "Confirm overwrite"))
             ELSE F[k - 1]
  IN F[Len(ops)]

(***************************************************************************)
(* System calls.  A call on a path of `denied` fails as the operating      *)
(* system fails it (permission denied); every other failure follows from   *)
(* what the filesystem holds.  A failed call leaves the filesystem as it   *)
(* was.  Each returns [ok, fs, message].                                   *)
(***************************************************************************)
DirNode == [kind |-> "dir", content |-> ""]

FileNode(content) == [kind |-> "file", content |-> content]

SysOk(fs) == [ok |-> TRUE, fs |-> fs, message |-> ""]

SysFail(fs, message) == [ok |-> FALSE, fs |-> fs, message |-> message]

\* whether some proper ancestor of p is missing or is not a directory
BadAncestor(fs, p) == \E n \in 0..(Len(p) - 1) : ~IsDir(fs, SubSeq(p, 1, n))

\* os.mkdir(p)
SysMkdir(fs, denied, p) ==
  IF Exists(fs, p) THEN SysFail(fs, "File exists")
  ELSE IF ~Exists(fs, Parent(p)) THEN SysFail(fs, "No such file or directory")
  ELSE IF ~IsDir(fs, Parent(p)) THEN SysFail(fs, "Not a directory")
  ELSE IF p \in denied THEN SysFail(fs, "Permission denied")
  ELSE SysOk(fs @@ (p :> DirNode))

RECURSIVE MkdirParents(_, _, _, _)
\* Path.mkdir(parents=True, exist_ok=exist_ok): the missing ancestors are
\* made from the top down, so a failure below leaves the ones above
MkdirParents(fs, denied, p, exist_ok) ==
  LET first == SysMkdir(fs, denied, p)
  IN IF first.ok THEN first
     ELSE IF first.message = "No such file or directory" /\ p # <<>>
       THEN LET up == MkdirParents(fs, denied, Parent(p), TRUE)
            IN IF up.ok THEN SysMkdir(up.fs, denied, p) ELSE up
     ELSE IF exist_ok /\ IsDir(fs, p) THEN SysOk(fs)
     ELSE first

\* Path.touch(exist_ok=False): an empty regular file
SysTouch(fs, denied, p) ==
  IF Exists(fs, p) THEN SysFail(fs, "File exists")
  ELSE IF ~Exists(fs, Parent(p)) THEN SysFail(fs, "No such file or directory")
  ELSE IF ~IsDir(fs, Parent(p)) THEN SysFail(fs, "Not a directory")
  ELSE IF p \in denied THEN SysFail(fs, "Permission denied")
  ELSE SysOk(fs @@ (p :> FileNode("")))

\* Path.unlink()
SysUnlink(fs, denied, p) ==
  IF ~Exists(fs, p) THEN SysFail(fs, "No such file or directory")
  ELSE IF IsDir(fs, p) THEN SysFail(fs, "Is a directory")
  ELSE IF p \in denied THEN SysFail(fs, "Permission denied")
  ELSE SysOk([q \in DOMAIN fs \ {p} |-> fs[q]])

\* Path.rmdir(): only an empty directory goes
SysRmdir(fs, denied, p) ==
  IF ~Exists(fs, p) THEN SysFail(fs, "No such file or directory")
  ELSE IF ~IsDir(fs, p) THEN SysFail(fs, "Not a directory")
  ELSE IF Descendants(fs, p) # {} THEN SysFail(fs, "Directory not empty")
  ELSE IF p \in denied THEN SysFail(fs, "Permission denied")
  ELSE SysOk([q \in DOMAIN fs \ {p} |-> fs[q]])

\* os.replace(source, target) and Path.rename(target): rename(2).  A file
\* replaces a file; a directory goes only onto a missing name or an empty
\* directory, and never below itself.  shutil.move, the fallback of
\* _apply_move_step, fails wherever this fails.
SysRename(fs, denied, source, target) ==
  LET moved == {q \in DOMAIN fs : IsUnder(q, source)}
      landed(q) == target \o RelativeTo(q, source)
      domain == (DOMAIN fs \ (moved \cup {target})) \cup {landed(q) : q \in moved}
  IN IF ~Exists(fs, source) THEN SysFail(fs, "No such file or directory")
     ELSE IF ~Exists(fs, Parent(target)) THEN SysFail(fs, "No such file or directory")
     ELSE IF ~IsDir(fs, Parent(target)) THEN SysFail(fs, "Not a directory")
     ELSE IF source = target THEN SysOk(fs)
     ELSE IF IsDir(fs, source) /\ IsUnder(target, source)
       THEN SysFail(fs, "Invalid argument")
     ELSE IF IsDir(fs, source) /\ Exists(fs, target) /\ ~IsDir(fs, target)
       THEN SysFail(fs, "Not a directory")
     ELSE IF ~IsDir(fs, source) /\ IsDir(fs, target)
       THEN SysFail(fs, "Is a directory")
     ELSE IF IsDir(fs, target) /\ Descendants(fs, target) # {}
       THEN SysFail(fs, "Directory not empty")
     ELSE IF source \in denied \/ target \in denied
       THEN SysFail(fs, "Permission denied")
     ELSE SysOk([q \in domain |->
                   IF IsUnder(q, target)
                     THEN fs[source \o RelativeTo(q, target)]
                     ELSE fs[q]])

(***************************************************************************)
(* fileops_apply.py: executor.  An operation is known by its place in      *)
(* plan.operations (Python's id(op)): origin is that 1-based place.        *)
(***************************************************************************)
ApplyResult(origin, operation, status, message) ==
  [origin |-> origin, operation |-> operation, status |-> status,
   message |-> message]

\* _apply_create answering an existing regular file the way it answers an
\* existing directory: the create is Skipped
ApplyCreateSkippingFile(fs, denied, origin, op) ==
  LET done(status, message, after) ==
        [result |-> ApplyResult(origin, op, status, message), fs |-> after]
      made == MkdirParents(fs, denied, op.target, FALSE)
      parent == MkdirParents(fs, denied, Parent(op.target), TRUE)
      touched == SysTouch(parent.fs, denied, op.target)
  IN IF op.target = None THEN done("error", "Missing target path.", fs)
     ELSE IF op.op_type = "create_dir"
       THEN IF Exists(fs, op.target)
              THEN IF IsDir(fs, op.target)
                     THEN done("skipped", "Directory already exists.", fs)
                     ELSE done("error", "Target exists and is not a directory.", fs)
            ELSE IF made.ok THEN done("ok", "", made.fs)
            ELSE done("error", made.message, made.fs)
     ELSE IF op.op_type = "create_file"
       THEN IF Exists(fs, op.target)
              THEN IF IsDir(fs, op.target)
                     THEN done("error", "Target file already exists.", fs)
                     ELSE done("skipped", "File already exists.", fs)
            ELSE IF ~parent.ok THEN done("error", parent.message, parent.fs)
            ELSE IF touched.ok THEN done("ok", "", touched.fs)
            ELSE done("error", touched.message, touched.fs)
     ELSE done("error", "Unsupported create operation.", fs)

\* _apply_create with mkdir(parents=False) and no mkdir of a file's parent:
\* a create below a directory that is not there yet fails
ApplyCreateNoParents(fs, denied, origin, op) ==
  LET done(status, message, after) ==
        [result |-> ApplyResult(origin, op, status, message), fs |-> after]
      made == SysMkdir(fs, denied, op.target)
      touched == SysTouch(fs, denied, op.target)
  IN IF op.target = None THEN done("error", "Missing target path.", fs)
     ELSE IF op.op_type = "create_dir"
       THEN IF Exists(fs, op.target)
              THEN IF IsDir(fs, op.target)
                     THEN done("skipped", "Directory already exists.", fs)
                     ELSE done("error", "Target exists and is not a directory.", fs)
            ELSE IF made.ok THEN done("ok", "", made.fs)
            ELSE done("error", made.message, made.fs)
     ELSE IF op.op_type = "create_file"
       THEN IF Exists(fs, op.target)
              THEN done("error", "Target file already exists.", fs)
            ELSE IF touched.ok THEN done("ok", "", touched.fs)
            ELSE done("error", touched.message, touched.fs)
     ELSE done("error", "Unsupported create operation.", fs)

\* _apply_create(op): [result, fs]
ApplyCreate(fs, denied, origin, op) ==
  LET done(status, message, after) ==
        [result |-> ApplyResult(origin, op, status, message), fs |-> after]
      made == MkdirParents(fs, denied, op.target, FALSE)
      parent == MkdirParents(fs, denied, Parent(op.target), TRUE)
      touched == SysTouch(parent.fs, denied, op.target)
  IN IF op.target = None THEN done("error", "Missing target path.", fs)
     ELSE IF op.op_type = "create_dir"
       THEN IF Exists(fs, op.target)
              THEN IF IsDir(fs, op.target)
                     THEN done("skipped", "Directory already exists.", fs)
                     ELSE done("error", "Target exists and is not a directory.", fs)
            ELSE IF made.ok THEN done("ok", "", made.fs)
            ELSE done("error", made.message, made.fs)
     ELSE IF op.op_type = "create_file"
       THEN IF Exists(fs, op.target)
              THEN done("error", "Target file already exists.", fs)
            ELSE IF ~parent.ok THEN done("error", parent.message, parent.fs)
            ELSE IF touched.ok THEN done("ok", "", touched.fs)
            ELSE done("error", touched.message, touched.fs)
     ELSE done("error", "Unsupported create operation.", fs)

\* _apply_delete removing a directory with all it holds (shutil.rmtree)
ApplyDeleteRecursive(fs, denied, origin, op) ==
  IF op.source = None
    THEN [result |-> ApplyResult(origin, op, "error", "Missing source path."),
          fs |-> fs]
  ELSE IF ~Exists(fs, op.source) \/ op.source \in denied
    THEN [result |-> ApplyResult(origin, op, "error", "No such file or directory"),
          fs |-> fs]
  ELSE [result |-> ApplyResult(origin, op, "ok", ""),
        fs |-> [q \in {x \in DOMAIN fs : ~IsUnder(x, op.source)} |-> fs[q]]]

\* _apply_delete(op): [result, fs]
ApplyDelete(fs, denied, origin, op) ==
  LET call == IF op.is_dir THEN SysRmdir(fs, denied, op.source)
              ELSE SysUnlink(fs, denied, op.source)
  IN IF op.source = None
       THEN [result |-> ApplyResult(origin, op, "error", "Missing source path."),
             fs |-> fs]
     ELSE IF call.ok
       THEN [result |-> ApplyResult(origin, op, "ok", ""), fs |-> call.fs]
     ELSE [result |-> ApplyResult(origin, op, "error", call.message), fs |-> fs]

\* _apply_move_step(source, target, is_dir): [ok, fs, message]
ApplyMoveStep(fs, denied, source, target, is_dir) ==
  IF ~Exists(fs, Parent(target)) THEN SysFail(fs, "Target parent does not exist.")
  ELSE IF Exists(fs, target) /\ is_dir
    THEN SysFail(fs, "Target directory already exists.")
  ELSE IF Exists(fs, target) /\ IsDir(fs, target)
    THEN SysFail(fs, "Target is an existing directory.")
  ELSE SysRename(fs, denied, source, target)

RECURSIVE DecimalText(_)
\* str(n) for n >= 0
DecimalText(n) ==
  LET digits == <<"0", "1", "2", "3", "4", "5", "6", "7", "8", "9">>
  IN IF n < 10 THEN <<digits[n + 1]>>
     ELSE Append(DecimalText(n \div 10), digits[(n % 10) + 1])

\* ".clipstui_tmp"
TMP_SUFFIX == <<".", "c", "l", "i", "p", "s", "t", "u", "i", "_", "t", "m", "p">>

\* NAME_MAX of the filesystem: the longest name a directory entry can have
NAME_MAX == 255

\* Path.exists() raises OSError: stat fails with ENAMETOOLONG, an error
\* that pathlib does not take for "missing"
StatRaises(p) == \E n \in 1..Len(p) : Len(p[n]) > NAME_MAX

\* what _unique_temp_path gives when its candidate.exists() raises
OSErrorRaised == << <<"OSError">> >>

RECURSIVE TempCandidate(_, _, _, _, _)
\* the loop of _unique_temp_path from the candidate `candidate` on
TempCandidate(fs, source, existing, candidate, counter) ==
  IF PathKey(candidate) \notin existing /\ StatRaises(candidate)
    THEN OSErrorRaised
  ELSE IF PathKey(candidate) \in existing \/ Exists(fs, candidate)
    THEN TempCandidate(fs, source, existing,
           Append(Parent(source),
                  Name(source) \o TMP_SUFFIX \o <<"_">> \o DecimalText(counter)),
           counter + 1)
    ELSE candidate

\* _unique_temp_path returning its first candidate, without the loop
UniqueTempPathFirstCandidate(fs, source, existing) ==
  Append(Parent(source), Name(source) \o TMP_SUFFIX)

\* _unique_temp_path(source, existing)
UniqueTempPath(fs, source, existing) ==
  TempCandidate(fs, source, existing,
                Append(Parent(source), Name(source) \o TMP_SUFFIX), 1)

MoveItem(source, target, origin, operation, is_dir) ==
  [source |-> source, target |-> target, origin |-> origin,
   operation |-> operation, is_dir |-> is_dir]

\* dataclass equality of two _MoveItem: by value, the origin by its value
SameItem(x, y) ==
  /\ x.source = y.source /\ x.target = y.target
  /\ x.operation = y.operation /\ x.is_dir = y.is_dir

\* list.remove(item): the first equal element goes
RemoveItem(pending, item) ==
  LET k == CHOOSE i \in 1..Len(pending) :
             SameItem(pending[i], item) /\ \A j \in 1..(i - 1) : ~SameItem(pending[j], item)
  IN SubSeq(pending, 1, k - 1) \o SubSeq(pending, k + 1, Len(pending))

\* the pass without "if _path_key(item.target) not in source_keys": every
\* pending move becomes a step, in the order given
OrderPassEmittingAll(pending, steps, source_keys) ==
  LET F[k \in 0..Len(pending)] ==
        IF k = 0
          THEN [pending |-> pending, steps |-> steps, source_keys |-> source_keys,
                progress |-> FALSE]
        ELSE
          LET acc == F[k - 1]
              item == pending[k]
          IN [pending |-> RemoveItem(acc.pending, item),
              steps |-> Append(acc.steps, item),
              source_keys |-> acc.source_keys \ {PathKey(item.source)},
              progress |-> TRUE]
  IN F[Len(pending)]

\* One pass of "for item in list(pending)" in _order_moves.
OrderPass(pending, steps, source_keys) ==
  LET F[k \in 0..Len(pending)] ==
        IF k = 0
          THEN [pending |-> pending, steps |-> steps, source_keys |-> source_keys,
                progress |-> FALSE]
        ELSE
          LET acc == F[k - 1]
              item == pending[k]
          IN IF PathKey(item.target) \notin acc.source_keys
               THEN [pending |-> RemoveItem(acc.pending, item),
                     steps |-> Append(acc.steps, item),
                     source_keys |-> acc.source_keys \ {PathKey(item.source)},
                     progress |-> TRUE]
               ELSE acc
  IN F[Len(pending)]

\* the locals of _order_moves while its loop runs; raised says that an
\* OSError left the loop
OrderState(pending, steps, source_keys, existing_keys, raised) ==
  [pending |-> pending, steps |-> steps, source_keys |-> source_keys,
   existing_keys |-> existing_keys, raised |-> raised]

\* a turn without progress that puts the first pending move back in the
\* queue as it is
BreakCycleRequeue(st, item, temp) ==
  OrderState(Append(Tail(st.pending), item), st.steps, st.source_keys,
             st.existing_keys, FALSE)

\* a turn without progress that sends the first pending move to a temporary
\* name and does not queue the way from there to its target
BreakCycleForgetting(st, item, temp) ==
  IF temp = OSErrorRaised
    THEN OrderState(Tail(st.pending), st.steps,
                    st.source_keys \ {PathKey(item.source)}, st.existing_keys, TRUE)
    ELSE OrderState(
           Tail(st.pending),
           Append(st.steps,
                  MoveItem(item.source, temp, item.origin, item.operation, item.is_dir)),
           st.source_keys \ {PathKey(item.source)},
           st.existing_keys \cup {PathKey(temp)},
           FALSE)

\* _order_moves, the end of a turn without progress: the first pending move
\* goes to a temporary name and waits again from there
BreakCycle(st, item, temp) ==
  IF temp = OSErrorRaised
    THEN OrderState(Tail(st.pending), st.steps,
                    st.source_keys \ {PathKey(item.source)}, st.existing_keys, TRUE)
    ELSE OrderState(
           Append(Tail(st.pending),
                  MoveItem(temp, item.target, item.origin, item.operation, item.is_dir)),
           Append(st.steps,
                  MoveItem(item.source, temp, item.origin, item.operation, item.is_dir)),
           (st.source_keys \ {PathKey(item.source)}) \cup {PathKey(temp)},
           st.existing_keys \cup {PathKey(temp)},
           FALSE)

\* one turn of the "while pending" loop of _order_moves
OrderIteration(fs, st) ==
  LET pass == OrderPass(st.pending, st.steps, st.source_keys)
  IN IF pass.progress
       THEN OrderState(pass.pending, pass.steps, pass.source_keys,
                       st.existing_keys, FALSE)
       ELSE BreakCycle(st, Head(st.pending),
                       UniqueTempPath(fs, Head(st.pending).source, st.existing_keys))

RECURSIVE OrderLoop(_, _)
\* The "while pending" loop of _order_moves: its locals when it ends.
OrderLoop(fs, st) ==
  IF st.pending = <<>> \/ st.raised THEN st
  ELSE OrderLoop(fs, OrderIteration(fs, st))

\* the result _order_moves gives a move it does not queue, or "" for a
\* move it queues
MoveSkipStatus(op) ==
  IF op.source = None \/ op.target = None THEN "error"
  ELSE IF PathKey(op.source) = PathKey(op.target) THEN "skipped"
  ELSE ""

\* what _order_moves has in pending, source_keys and existing_keys when its
\* loop begins; queued is a list of [origin, operation]
OrderStart(queued) ==
  LET pending == [i \in 1..Len(queued) |->
                    MoveItem(queued[i].operation.source, queued[i].operation.target,
                             queued[i].origin, queued[i].operation,
                             queued[i].operation.is_dir)]
      source_keys == {PathKey(queued[i].operation.source) : i \in 1..Len(queued)}
  IN OrderState(pending, <<>>, source_keys,
                source_keys \cup {PathKey(queued[i].operation.target) : i \in 1..Len(queued)},
                FALSE)

\* the results _order_moves gives the moves it does not queue
SkippedResults(unqueued) ==
  [i \in 1..Len(unqueued) |->
     IF MoveSkipStatus(unqueued[i].operation) = "error"
       THEN ApplyResult(unqueued[i].origin, unqueued[i].operation, "error",
                        "Missing source or target.")
       ELSE ApplyResult(unqueued[i].origin, unqueued[i].operation, "skipped",
                        "Source and target are the same.")]

\* _order_moves without cycle breaking: every queued move becomes one step,
\* in plan order
OrderMovesInPlanOrder(fs, moves) ==
  LET queued == SelectIdx(moves, LAMBDA i : MoveSkipStatus(moves[i].operation) = "")
  IN [steps |-> [i \in 1..Len(queued) |->
                   MoveItem(queued[i].operation.source, queued[i].operation.target,
                            queued[i].origin, queued[i].operation,
                            queued[i].operation.is_dir)],
      skipped |-> <<>>,
      raised |-> FALSE]

\* _order_moves(moves): [steps, skipped, raised]; moves is a list of
\* [origin, operation]
OrderMoves(fs, moves) ==
  LET ended ==
        OrderLoop(fs, OrderStart(
          SelectIdx(moves, LAMBDA i : MoveSkipStatus(moves[i].operation) = "")))
  IN [steps |-> ended.steps,
      skipped |-> SkippedResults(
        SelectIdx(moves, LAMBDA i : MoveSkipStatus(moves[i].operation) # "")),
      raised |-> ended.raised]

\* the operations of the plan of the given types, each with its origin
OpsOfType(operations, types) ==
  LET tagged == [i \in 1..Len(operations) |-> [origin |-> i, operation |-> operations[i]]]
  IN SelectIdx(tagged, LAMBDA i : operations[i].op_type \in types)

\* the deletes of apply_plan left in plan order, files and directories mixed
DeleteOrderAsPlanned(operations) ==
  OpsOfType(operations, {"delete"})

\* delete_files + delete_dirs of apply_plan
DeleteOrder(operations) ==
  LET deletes == OpsOfType(operations, {"delete"})
  IN SelectIdx(deletes, LAMBDA i : ~deletes[i].operation.is_dir)
     \o SelectIdx(deletes, LAMBDA i : deletes[i].operation.is_dir)

(***************************************************************************)
(* State.                                                                  *)
(***************************************************************************)
VARIABLES
  fs,          \* the filesystem
  denied,      \* the paths on which the operating system fails every call
  fs0,         \* the filesystem when the current apply_plan began
  original,    \* the original listing given to compute_plan
  lines,       \* the edited lines given to compute_plan
  plan,        \* the OperationPlan at hand
  errors,      \* what validate_plan returned for it
  pc,          \* where the program is
  todo,        \* apply_plan: what is left of the running phase
  status_by_id,\* _apply_moves: origin -> result of each queued move
  results,     \* apply_plan: the results so far, the report once done
  mode_status, \* app: what _update_mode_status last showed
  confirmed,   \* app: "yes" while _apply_plan_confirmed(plan, True) runs
  drive_picker_active, \* app: _drive_picker_active
  confirmations, \* app: what collect_confirmations returned for the plan
  order        \* _order_moves alone: its locals while its loop runs

vars == <<fs, denied, fs0, original, lines, plan, errors, pc, todo,
          status_by_id, results, mode_status, confirmed,
          drive_picker_active, confirmations, order>>

\* the application's variables that neither the planner nor the executor
\* touches
AppFrame ==
  UNCHANGED <<mode_status, confirmed, drive_picker_active, confirmations>>

\* the application before any apply attempt
AppIdle ==
  /\ mode_status = <<>>
  /\ confirmed = "unasked"
  /\ drive_picker_active = FALSE
  /\ confirmations = <<>>

\* OperationPlan(root, operations, [], [], [], []), as the executor's tests
\* build it
HandBuiltPlan(root, operations) ==
  [root |-> root, operations |-> operations, original_entries |-> <<>>,
   edited_entries |-> <<>>, delete_markers |-> <<>>, parse_errors |-> <<>>]

NoPlan == HandBuiltPlan(Root, <<>>)

\* _order_moves not running
NoOrder == OrderState(<<>>, <<>>, {}, {}, FALSE)

\* the empty dict
NoStatus == [o \in {} |-> ApplyResult(0, Operation("move", None, None, FALSE), "ok", "")]

(***************************************************************************)
(* apply_plan, one action for each operation or step it performs.          *)
(***************************************************************************)
\* what apply_plan leaves alone
ExecutorFrame ==
  UNCHANGED <<denied, fs0, original, lines, plan, errors, order>> /\ AppFrame

\* apply_plan, "for op in creates: results.append(_apply_create(op))"
CreateStep ==
  /\ pc = "creates"
  /\ todo # <<>>
  /\ LET done == ApplyCreate(fs, denied, Head(todo).origin, Head(todo).operation)
     IN /\ fs' = done.fs
        /\ results' = Append(results, done.result)
  /\ todo' = Tail(todo)
  /\ UNCHANGED <<pc, status_by_id>>
  /\ ExecutorFrame

\* _apply_moves up to its loop: the steps are ordered, the unqueued moves
\* get their results, every queued move starts as Ok.  An OSError that
\* _order_moves raises is caught nowhere: it leaves apply_plan, with no
\* report.
BeginMoves ==
  /\ pc = "creates"
  /\ todo = <<>>
  /\ LET moves == OpsOfType(plan.operations, {"move"})
         ordered == OrderMoves(fs, moves)
         queued == {i \in 1..Len(moves) : MoveSkipStatus(moves[i].operation) = ""}
     IN IF ordered.raised
          THEN /\ pc' = "raised"
               /\ todo' = <<>>
               /\ results' = <<>>
               /\ UNCHANGED status_by_id
          ELSE /\ pc' = "moves"
               /\ todo' = ordered.steps
               /\ results' = results \o ordered.skipped
               /\ status_by_id' =
                    [o \in {moves[i].origin : i \in queued} |->
                       ApplyResult(o, plan.operations[o], "ok", "")]
  /\ UNCHANGED fs
  /\ ExecutorFrame

\* _apply_moves reporting every step it runs, on top of the final status of
\* each move
MoveStepReportingSteps ==
  /\ pc = "moves"
  /\ todo # <<>>
  /\ LET step == Head(todo)
         call == ApplyMoveStep(fs, denied, step.source, step.target, step.is_dir)
     IN /\ fs' = call.fs
        /\ results' = Append(results,
                        ApplyResult(step.origin, step.operation,
                                    IF call.ok THEN "ok" ELSE "error", call.message))
  /\ todo' = Tail(todo)
  /\ UNCHANGED <<pc, status_by_id>>
  /\ ExecutorFrame

\* the step loop without 'current.status == ApplyStatus.ERROR' in its
\* "continue": the steps left of a move that failed are run all the same
MoveStepIgnoringFailure ==
  /\ pc = "moves"
  /\ todo # <<>>
  /\ LET step == Head(todo)
         call == ApplyMoveStep(fs, denied, step.source, step.target, step.is_dir)
     IN IF step.origin \notin DOMAIN status_by_id
          THEN UNCHANGED <<fs, status_by_id>>
          ELSE /\ fs' = call.fs
               /\ status_by_id' =
                    IF call.ok THEN status_by_id
                    ELSE [status_by_id EXCEPT ![step.origin] =
                            ApplyResult(step.origin, step.operation, "error",
                                        call.message)]
  /\ todo' = Tail(todo)
  /\ UNCHANGED <<pc, results>>
  /\ ExecutorFrame

\* _apply_moves, one turn of "for step in move_steps"
MoveStep ==
  /\ pc = "moves"
  /\ todo # <<>>
  /\ LET step == Head(todo)
         call == ApplyMoveStep(fs, denied, step.source, step.target, step.is_dir)
     IN IF step.origin \notin DOMAIN status_by_id
           \/ status_by_id[step.origin].status = "error"
          THEN UNCHANGED <<fs, status_by_id>>
          ELSE /\ fs' = call.fs
               /\ status_by_id' =
                    IF call.ok THEN status_by_id
                    ELSE [status_by_id EXCEPT ![step.origin] =
                            ApplyResult(step.origin, step.operation, "error",
                                        call.message)]
  /\ todo' = Tail(todo)
  /\ UNCHANGED <<pc, results>>
  /\ ExecutorFrame

\* _apply_moves' return and apply_plan's split of the deletes
EndMoves ==
  /\ pc = "moves"
  /\ todo = <<>>
  /\ LET moves == OpsOfType(plan.operations, {"move"})
         queued == SelectIdx(moves, LAMBDA i : moves[i].origin \in DOMAIN status_by_id)
     IN results' = results \o [i \in 1..Len(queued) |-> status_by_id[queued[i].origin]]
  /\ todo' = DeleteOrder(plan.operations)
  /\ pc' = "deletes"
  /\ UNCHANGED <<fs, status_by_id>>
  /\ ExecutorFrame

\* apply_plan, "for op in delete_files + delete_dirs"
DeleteStep ==
  /\ pc = "deletes"
  /\ todo # <<>>
  /\ LET done == ApplyDelete(fs, denied, Head(todo).origin, Head(todo).operation)
     IN /\ fs' = done.fs
        /\ results' = Append(results, done.result)
  /\ todo' = Tail(todo)
  /\ UNCHANGED <<pc, status_by_id>>
  /\ ExecutorFrame

\* apply_plan returns ApplyReport(results)
Return ==
  /\ pc = "deletes"
  /\ todo = <<>>
  /\ pc' = "done"
  /\ UNCHANGED <<fs, todo, status_by_id, results>>
  /\ ExecutorFrame

\* the state in which apply_plan(p) begins on filesystem f
Begins(f, d, p) ==
  /\ fs = f
  /\ fs0 = f
  /\ denied = d
  /\ plan = p
  /\ pc = "creates"
  /\ todo = OpsOfType(p.operations, {"create_dir", "create_file"})
  /\ status_by_id = NoStatus
  /\ results = <<>>

\* ApplyReport.ok_count, error_count, skipped_count
CountStatus(rs, status) == Cardinality({i \in 1..Len(rs) : rs[i].status = status})

(***************************************************************************)
(* The executor on hand-built plans (as tests/test_fileops_apply.py runs   *)
(* it): files a, b, c and a directory s holding the file k.                *)
(***************************************************************************)
P(names) == Root \o names

PA == P(<< <<"a">> >>)

PB == P(<< <<"b">> >>)

PC == P(<< <<"c">> >>)

PS == P(<< <<"s">> >>)

PSK == P(<< <<"s">>, <<"k">> >>)

PX == P(<< <<"x">> >>)

ApplyFs ==
  (<<>> :> DirNode) @@ (Root :> DirNode)
  @@ (PA :> FileNode("A")) @@ (PB :> FileNode("B")) @@ (PC :> FileNode("C"))
  @@ (PS :> DirNode) @@ (PSK :> FileNode("K"))

\* the operations hand-built plans are drawn from
ApplyOps ==
  {Operation("move", x, y, FALSE) : x, y \in {PA, PB, PC}}
  \cup {Operation("move", PA, PX, FALSE),
        Operation("delete", PS, None, TRUE),
        Operation("delete", PSK, None, FALSE),
        Operation("delete", PA, None, FALSE),
        Operation("create_file", None, PX, FALSE),
        Operation("create_dir", None, PS, TRUE)}

\* the sequences over pool of at most n elements
RECURSIVE LineSeqs(_, _)
LineSeqs(pool, n) ==
  IF n = 0 THEN {<<>>}
  ELSE LET shorter == LineSeqs(pool, n - 1)
       IN shorter \cup {Append(l, t) : l \in {x \in shorter : Len(x) = n - 1},
                                       t \in pool}

\* lists of distinct operations, at most MaxOps long
RECURSIVE OpLists(_)
OpLists(n) ==
  IF n = 0 THEN {<<>>}
  ELSE LET shorter == OpLists(n - 1)
       IN shorter \cup {Append(l, o) : l \in {x \in shorter : Len(x) = n - 1},
                                       o \in ApplyOps}

ApplyPlans ==
  {l \in OpLists(MaxOps) : \A i, j \in 1..Len(l) : i # j => l[i] # l[j]}

ApplyDenied == {{}, {PB}}

InitApply ==
  /\ original = <<>>
  /\ lines = <<>>
  /\ errors = <<>>
  /\ AppIdle
  /\ order = NoOrder
  /\ \E ops \in ApplyPlans, d \in ApplyDenied :
       Begins(ApplyFs, d, HandBuiltPlan(Root, ops))

NextApply ==
  \/ CreateStep
  \/ BeginMoves
  \/ MoveStep
  \/ EndMoves
  \/ DeleteStep
  \/ Return

SpecApply == InitApply /\ [][NextApply]_vars

(***************************************************************************)
(* The executor on plans that name a file whose name is almost as long as  *)
(* the filesystem allows.                                                  *)
(***************************************************************************)
\* a name of 243 characters: with ".clipstui_tmp" behind it, it is longer
\* than NAME_MAX
LongName == [n \in 1..(NAME_MAX - Len(TMP_SUFFIX) + 1) |-> "n"]

PL == P(<<LongName>>)

LongFs ==
  (<<>> :> DirNode) @@ (Root :> DirNode)
  @@ (PA :> FileNode("A")) @@ (PB :> FileNode("B")) @@ (PL :> FileNode("L"))

LongOps ==
  {Operation("move", x, y, FALSE) : x, y \in {PA, PL}}
  \cup {Operation("move", PB, PX, FALSE),
        Operation("delete", PB, None, FALSE),
        Operation("create_file", None, PX, FALSE)}

\* lists of distinct operations, at most MaxOps long
LongPlans ==
  {l \in LineSeqs(LongOps, MaxOps) : \A i, j \in 1..Len(l) : i # j => l[i] # l[j]}

InitApplyLong ==
  /\ original = <<>>
  /\ lines = <<>>
  /\ errors = <<>>
  /\ AppIdle
  /\ order = NoOrder
  /\ \E ops \in LongPlans, d \in ApplyDenied :
       Begins(LongFs, d, HandBuiltPlan(Root, ops))

SpecApplyLong == InitApplyLong /\ [][NextApply]_vars

(***************************************************************************)
(* The executor on plans made mostly of creates: targets that are new,     *)
(* that exist as a file or as a directory, that lie under a file, under a  *)
(* directory still to be made, or where the OS refuses the call.           *)
(***************************************************************************)
PAN == P(<< <<"a">>, <<"n">> >>)

PDN == P(<< <<"d">>, <<"n">> >>)

CreateOps ==
  {Operation(t, None, y, t = "create_dir") :
     t \in {"create_file", "create_dir"}, y \in {PA, PS, PX}}
  \cup {Operation("create_file", None, PAN, FALSE),
        Operation("create_file", None, PDN, FALSE),
        Operation("move", PB, PX, FALSE),
        Operation("delete", PC, None, FALSE)}

\* lists of distinct operations, at most MaxOps long
CreatePlans ==
  {l \in LineSeqs(CreateOps, MaxOps) : \A i, j \in 1..Len(l) : i # j => l[i] # l[j]}

CreateDenied == {{}, {PX}}

InitApplyCreates ==
  /\ original = <<>>
  /\ lines = <<>>
  /\ errors = <<>>
  /\ AppIdle
  /\ order = NoOrder
  /\ \E ops \in CreatePlans, d \in CreateDenied :
       Begins(ApplyFs, d, HandBuiltPlan(Root, ops))

SpecApplyCreates == InitApplyCreates /\ [][NextApply]_vars

(***************************************************************************)
(* The executor on plans made mostly of deletes: the directory s holds the *)
(* file k and the empty directory t, and a plan deletes some of s, s/k and *)
(* s/t in some order.                                                      *)
(***************************************************************************)
PST == P(<< <<"s">>, <<"t">> >>)

DeleteFs == ApplyFs @@ (PST :> DirNode)

DeleteOps ==
  {Operation("delete", PS, None, TRUE),
   Operation("delete", PST, None, TRUE),
   Operation("delete", PSK, None, FALSE),
   Operation("delete", PA, None, FALSE),
   Operation("move", PB, PX, FALSE),
   Operation("create_file", None, PX, FALSE)}

\* lists of distinct operations, at most MaxOps long
DeletePlans ==
  {l \in LineSeqs(DeleteOps, MaxOps) : \A i, j \in 1..Len(l) : i # j => l[i] # l[j]}

InitApplyDeletes ==
  /\ original = <<>>
  /\ lines = <<>>
  /\ errors = <<>>
  /\ AppIdle
  /\ order = NoOrder
  /\ \E ops \in DeletePlans : Begins(DeleteFs, {}, HandBuiltPlan(Root, ops))

SpecApplyDeletes == InitApplyDeletes /\ [][NextApply]_vars

(***************************************************************************)
(* The executor on creates that lie under one another: the directory x,    *)
(* the directory x/y, the files x/f and x/y/g, none of them on disk, in    *)
(* every order; and a file to be made at x.                                *)
(***************************************************************************)
PXY == P(<< <<"x">>, <<"y">> >>)

PXF == P(<< <<"x">>, <<"f">> >>)

PXYG == P(<< <<"x">>, <<"y">>, <<"g">> >>)

NestedOps ==
  {Operation("create_dir", None, PX, TRUE),
   Operation("create_dir", None, PXY, TRUE),
   Operation("create_file", None, PXF, FALSE),
   Operation("create_file", None, PXYG, FALSE),
   Operation("create_file", None, PX, FALSE),
   Operation("move", PA, PB, FALSE),
   Operation("delete", PC, None, FALSE)}

\* lists of distinct operations, at most MaxOps long
NestedPlans ==
  {l \in LineSeqs(NestedOps, MaxOps) : \A i, j \in 1..Len(l) : i # j => l[i] # l[j]}

InitApplyNested ==
  /\ original = <<>>
  /\ lines = <<>>
  /\ errors = <<>>
  /\ AppIdle
  /\ order = NoOrder
  /\ \E ops \in NestedPlans : Begins(ApplyFs, {}, HandBuiltPlan(Root, ops))

SpecApplyNested == InitApplyNested /\ [][NextApply]_vars

(***************************************************************************)
(* collect_confirmations on hand-built plans: deletes, creates, and moves  *)
(* of files and directories onto nothing, onto a file, onto a directory.   *)
(***************************************************************************)
ConfirmOps ==
  {Operation("move", PA, y, FALSE) : y \in {PB, PS, PSK, PX}}
  \cup {Operation("move", PS, y, TRUE) : y \in {PB, PX}}
  \cup {Operation("delete", PA, None, FALSE),
        Operation("delete", PS, None, TRUE),
        Operation("create_file", None, PB, FALSE),
        Operation("create_file", None, PX, FALSE),
        Operation("create_dir", None, PS, TRUE)}

ConfirmPlans == LineSeqs(ConfirmOps, MaxOps)

InitConfirm ==
  /\ original = <<>>
  /\ lines = <<>>
  /\ errors = <<>>
  /\ AppIdle
  /\ order = NoOrder
  /\ fs = ApplyFs
  /\ fs0 = fs
  /\ denied = {}
  /\ todo = <<>>
  /\ status_by_id = NoStatus
  /\ results = <<>>
  /\ plan \in {HandBuiltPlan(Root, ops) : ops \in ConfirmPlans}
  /\ pc = "planned"

\* confirmations = collect_confirmations(plan)
CollectConfirmations ==
  /\ pc = "planned"
  /\ confirmations' = collect_confirmations(plan, fs)
  /\ pc' = "collected"
  /\ UNCHANGED <<fs, denied, fs0, original, lines, plan, errors, todo,
                 status_by_id, results, mode_status, confirmed,
                 drive_picker_active, order>>

NextConfirm == CollectConfirmations

SpecConfirm == InitConfirm /\ [][NextConfirm]_vars

(***************************************************************************)
(* _order_moves on drawn lists of moves, one action for each turn of its   *)
(* "while pending" loop.  The moves go between a, b, c and x in any        *)
(* arrangement: chains, cycles, several cycles, shared sources, shared     *)
(* targets, the same move twice.                                           *)
(***************************************************************************)
\* the moves among a, b and c, and the two between c and x
OrderOps ==
  {Operation("move", yz[1], yz[2], FALSE) :
     yz \in {q \in {PA, PB, PC} \X {PA, PB, PC} : q[1] # q[2]}}
  \cup {Operation("move", PC, PX, FALSE), Operation("move", PX, PC, FALSE)}

MoveLists == LineSeqs(OrderOps, MaxMoves)

InitOrder ==
  /\ original = <<>>
  /\ lines = <<>>
  /\ errors = <<>>
  /\ AppIdle
  /\ fs = ApplyFs
  /\ fs0 = fs
  /\ denied = {}
  /\ todo = <<>>
  /\ status_by_id = NoStatus
  /\ results = <<>>
  /\ plan = NoPlan
  /\ order = NoOrder
  /\ pc = "start"

\* _order_moves(moves) up to its loop
CallOrderMoves ==
  /\ pc = "start"
  /\ \E moves \in MoveLists :
       /\ plan' = HandBuiltPlan(Root, moves)
       /\ LET tagged == OpsOfType(moves, {"move"})
          IN order' = OrderStart(
               SelectIdx(tagged, LAMBDA i : MoveSkipStatus(tagged[i].operation) = ""))
  /\ pc' = "ordering"
  /\ UNCHANGED <<fs, denied, fs0, original, lines, errors, todo, status_by_id, results>>
  /\ AppFrame

\* what _order_moves leaves alone
OrderFrame ==
  /\ UNCHANGED <<fs, denied, fs0, original, lines, plan, errors, todo,
                 status_by_id, results>>
  /\ AppFrame

\* one turn of "while pending"
OrderTurn ==
  /\ pc = "ordering"
  /\ order.pending # <<>> /\ ~order.raised
  /\ order' = OrderIteration(fs, order)
  /\ UNCHANGED pc
  /\ OrderFrame

\* the loop is left: "return steps, skipped"
OrderReturn ==
  /\ pc = "ordering"
  /\ order.pending = <<>> \/ order.raised
  /\ pc' = "ordered"
  /\ UNCHANGED order
  /\ OrderFrame

NextOrder ==
  \/ CallOrderMoves
  \/ OrderTurn
  \/ OrderReturn

SpecOrder == InitOrder /\ [][NextOrder]_vars

\* the guard of OrderTurn
TurnEnabled == pc = "ordering" /\ order.pending # <<>> /\ ~order.raised

\* once called, _order_moves runs without interruption: a turn of the loop
\* that can be taken is taken, and so is the return.  This is
\* WF_vars(OrderTurn) /\ WF_vars(OrderReturn), the first written out with
\* the guard of OrderTurn for ENABLED <<OrderTurn>>_vars.
FairOrder ==
  /\ SpecOrder
  /\ []<>(~TurnEnabled) \/ []<><<OrderTurn>>_vars
  /\ WF_vars(OrderReturn)

(***************************************************************************)
(* _order_moves where temporary names are taken: the swaps of a with b and *)
(* of c with x, next to a move that names the temporary name of a, with a  *)
(* file left on disk under the temporary name of c.                        *)
(***************************************************************************)
\* the name _unique_temp_path tries first for a
PAT == P(<<Name(PA) \o TMP_SUFFIX>>)

\* the name it tries first for c
PCT == P(<<Name(PC) \o TMP_SUFFIX>>)

\* the root with a file left under the temporary name of c
TempFs == ApplyFs @@ (PCT :> FileNode("T"))

TempOps ==
  {Operation("move", PA, PB, FALSE), Operation("move", PB, PA, FALSE),
   Operation("move", PC, PX, FALSE), Operation("move", PX, PC, FALSE),
   Operation("move", PX, PAT, FALSE), Operation("move", PCT, PB, FALSE)}

TempMoveLists == LineSeqs(TempOps, MaxMoves)

InitOrderTemps ==
  /\ original = <<>>
  /\ lines = <<>>
  /\ errors = <<>>
  /\ AppIdle
  /\ fs = TempFs
  /\ fs0 = fs
  /\ denied = {}
  /\ todo = <<>>
  /\ status_by_id = NoStatus
  /\ results = <<>>
  /\ plan = NoPlan
  /\ order = NoOrder
  /\ pc = "start"

\* _order_moves(moves) up to its loop, for these moves
CallOrderMovesTemps ==
  /\ pc = "start"
  /\ \E moves \in TempMoveLists :
       /\ plan' = HandBuiltPlan(Root, moves)
       /\ LET tagged == OpsOfType(moves, {"move"})
          IN order' = OrderStart(
               SelectIdx(tagged, LAMBDA i : MoveSkipStatus(tagged[i].operation) = ""))
  /\ pc' = "ordering"
  /\ UNCHANGED <<fs, denied, fs0, original, lines, errors, todo, status_by_id, results>>
  /\ AppFrame

NextOrderTemps ==
  \/ CallOrderMovesTemps
  \/ OrderTurn
  \/ OrderReturn

SpecOrderTemps == InitOrderTemps /\ [][NextOrderTemps]_vars

(***************************************************************************)
(* The executor on moves among the files a, b, c where the OS refuses the  *)
(* temporary name of a, or the file b: swaps and longer cycles whose first *)
(* step fails.                                                             *)
(***************************************************************************)
SwapOps ==
  {Operation("move", x, y, FALSE) : x, y \in {PA, PB, PC}}
  \cup {Operation("create_file", None, PX, FALSE),
        Operation("delete", PSK, None, FALSE)}

\* lists of distinct operations, at most MaxOps long
SwapPlans ==
  {l \in LineSeqs(SwapOps, MaxOps) : \A i, j \in 1..Len(l) : i # j => l[i] # l[j]}

SwapDenied == {{}, {PAT}, {PB}}

InitApplySwap ==
  /\ original = <<>>
  /\ lines = <<>>
  /\ errors = <<>>
  /\ AppIdle
  /\ order = NoOrder
  /\ \E ops \in SwapPlans, d \in SwapDenied :
       Begins(ApplyFs, d, HandBuiltPlan(Root, ops))

SpecApplySwap == InitApplySwap /\ [][NextApply]_vars

(***************************************************************************)
(* The planner and the validator on drawn inputs (as                       *)
(* tests/test_fileops_plan.py runs them): a root holding the directory d,  *)
(* the file a and the file "a " (a name that ends in a space), a listing   *)
(* of some of them in display order, and an edited buffer.                 *)
(***************************************************************************)
PD == P(<< <<"d">> >>)

\* the file whose name is "a "
PW == P(<< <<"a", " ">> >>)

\* the entries in the order _list_file_entries shows them: directories,
\* then files, each by name
PlanEntries == <<PathEntry(PD, TRUE), PathEntry(PA, FALSE), PathEntry(PW, FALSE)>>

\* the listings: what is left of PlanEntries when some entries are missing
Listings ==
  {SelectIdx(PlanEntries, LAMBDA i : i \in K) : K \in SUBSET (1..Len(PlanEntries))}

\* the root a listing was taken from
FsOf(listing) ==
  LET named == {listing[i].path : i \in 1..Len(listing)}
      entry(p) == listing[CHOOSE i \in 1..Len(listing) : listing[i].path = p]
  IN (<<>> :> DirNode) @@ (Root :> DirNode)
     @@ [p \in named |-> IF entry(p).is_dir THEN DirNode ELSE FileNode("F")]

\* "[delete] d/"
LowerMarkerLine ==
  <<"[", "d", "e", "l", "e", "t", "e", "]", " ", "d", "/">>

\* the lines of an edited buffer: entries as listed, with a trailing slash,
\* with trailing whitespace, in another letter case, new names, blank
\* lines, delete markers
PlanLines ==
  {<<"a">>, <<"a", " ">>, <<"A">>, <<"b">>, <<"d">>, <<"d", "/">>,
   <<"d", "/", "b">>, <<>>, <<" ">>,
   DELETE_MARKER \o <<" ", "a">>, LowerMarkerLine}

\* the lines of test_validate_plan_catches_invalid_paths: a name to
\* duplicate, a path that escapes the root, a name with a reserved
\* character; and a path below the listed file a
BadLines == {<<"x">>, <<".", ".", "/", "e">>, <<"b", "<">>, <<"a", "/", "b">>}

EditedBuffers == LineSeqs(PlanLines, MaxLines) \cup LineSeqs(BadLines, MaxBadLines)

\* what the planner and the validator leave alone
PlannerFrame ==
  UNCHANGED <<fs, denied, fs0, original, lines, todo, status_by_id, results, order>>
  /\ AppFrame

InitPlan ==
  /\ original \in Listings
  /\ lines \in EditedBuffers
  /\ fs = FsOf(original)
  /\ fs0 = fs
  /\ denied = {}
  /\ plan = NoPlan
  /\ errors = <<>>
  /\ pc = "edited"
  /\ todo = <<>>
  /\ status_by_id = NoStatus
  /\ results = <<>>
  /\ AppIdle
  /\ order = NoOrder

\* plan = compute_plan(root, original, edited)
CallComputePlan ==
  /\ pc = "edited"
  /\ plan' = compute_plan(Root, original, lines)
  /\ pc' = "planned"
  /\ UNCHANGED errors
  /\ PlannerFrame

\* errors = validate_plan(plan) with "errors = plan.parse_errors" for
\* "errors = list(plan.parse_errors)": the errors found are appended to the
\* plan's own list
CallValidatePlanAliasing ==
  /\ pc = "planned"
  /\ errors' = validate_plan(plan, fs)
  /\ pc' = "validated"
  /\ plan' = [plan EXCEPT !.parse_errors = validate_plan(plan, fs)]
  /\ PlannerFrame

\* errors = validate_plan(plan)
CallValidatePlan ==
  /\ pc = "planned"
  /\ errors' = validate_plan(plan, fs)
  /\ pc' = "validated"
  /\ UNCHANGED plan
  /\ PlannerFrame

\* validate_plan(plan) called once more, nothing having changed in between
CallValidatePlanAgain ==
  /\ pc = "validated"
  /\ errors' = validate_plan(plan, fs)
  /\ pc' = "revalidated"
  /\ UNCHANGED plan
  /\ PlannerFrame

NextPlan ==
  \/ CallComputePlan
  \/ CallValidatePlan
  \/ CallValidatePlanAgain

SpecPlan == InitPlan /\ [][NextPlan]_vars

(***************************************************************************)
(* compute_plan and validate_plan where targets exist and parents are      *)
(* missing: a root holding the directories d, e, f, g and the files a, b,  *)
(* c, listings of some of them, and buffers that reorder the listing,      *)
(* write a directory's name without its slash, and name paths below a      *)
(* directory x that is not on disk.                                        *)
(***************************************************************************)
PE == P(<< <<"e">> >>)

PF == P(<< <<"f">> >>)

PG == P(<< <<"g">> >>)

\* the listings, each in display order
DirListings ==
  {<<PathEntry(PD, TRUE), PathEntry(PE, TRUE), PathEntry(PF, TRUE),
     PathEntry(PG, TRUE)>>,
   <<PathEntry(PD, TRUE), PathEntry(PE, TRUE), PathEntry(PA, FALSE)>>,
   <<PathEntry(PA, FALSE), PathEntry(PB, FALSE), PathEntry(PC, FALSE)>>,
   <<PathEntry(PA, FALSE)>>}

\* the lines: listed names, d without its slash, the directory x, a file
\* and a directory below it, and a file below X
DirLines ==
  {<<"d", "/">>, <<"e", "/">>, <<"a">>, <<"b">>, <<"c">>,
   <<"d">>, <<"x", "/">>, <<"x", "/", "b">>, <<"x", "/", "y", "/">>,
   <<"X", "/", "b">>}

\* the lines of the listing d, e, f, g
SwapLines == <<<<"d", "/">>, <<"e", "/">>, <<"f", "/">>, <<"g", "/">>>>

\* that listing's lines in every order: SequenceMatcher keeps two lines
\* that are still next to each other and pairs what is around them
SwapBuffers ==
  {[k \in 1..Len(SwapLines) |-> SwapLines[f[k]]] :
     f \in {g \in [1..Len(SwapLines) -> 1..Len(SwapLines)] :
              \A m, n \in 1..Len(SwapLines) : m # n => g[m] # g[n]}}

DirBuffers == LineSeqs(DirLines, MaxLines) \cup SwapBuffers

InitPlanDirs ==
  /\ original \in DirListings
  /\ lines \in DirBuffers
  /\ fs = FsOf(original)
  /\ fs0 = fs
  /\ denied = {}
  /\ plan = NoPlan
  /\ errors = <<>>
  /\ pc = "edited"
  /\ todo = <<>>
  /\ status_by_id = NoStatus
  /\ results = <<>>
  /\ AppIdle
  /\ order = NoOrder

SpecPlanDirs == InitPlanDirs /\ [][NextPlan]_vars

(***************************************************************************)
(* compute_plan on lines that do not parse: a root holding the directory d *)
(* and the files a and b, and buffers of an entry, a new name, a delete    *)
(* marker whose path is good, markers whose path is missing, outside the   *)
(* root or the root itself, and normal lines with such faults.             *)
(***************************************************************************)
ParseListings ==
  {<<PathEntry(PD, TRUE), PathEntry(PA, FALSE)>>,
   <<PathEntry(PA, FALSE), PathEntry(PB, FALSE)>>}

\* "[delete]a"
ShortMarkerLine == <<"[", "d", "e", "l", "e", "t", "e", "]", "a">>

\* "[DELET] a": a name, not a marker
NearMarkerLine == <<"[", "D", "E", "L", "E", "T", "]", " ", "a">>

ParseLinePool ==
  {<<"a">>, NearMarkerLine, <<"/">>, <<".", ".", "/", "e">>, <<".">>,
   ShortMarkerLine, DELETE_MARKER,
   DELETE_MARKER \o <<" ", ".", ".", "/", "e">>, DELETE_MARKER \o <<" ", ".">>}

ParseBuffers == LineSeqs(ParseLinePool, MaxLines)

InitPlanParse ==
  /\ original \in ParseListings
  /\ lines \in ParseBuffers
  /\ fs = FsOf(original)
  /\ fs0 = fs
  /\ denied = {}
  /\ plan = NoPlan
  /\ errors = <<>>
  /\ pc = "edited"
  /\ todo = <<>>
  /\ status_by_id = NoStatus
  /\ results = <<>>
  /\ AppIdle
  /\ order = NoOrder

SpecPlanParse == InitPlanParse /\ [][NextPlan]_vars

(***************************************************************************)
(* The planner and the validator on a root whose entries have names the    *)
(* validator objects to: a name with a reserved character, and two names   *)
(* that differ in letter case only.                                        *)
(***************************************************************************)
PUA == P(<< <<"A">> >>)

\* the file whose name is "b<"
PBL == P(<< <<"b", "<">> >>)

\* the entries in display order: the directory, then the files by
\* path_sort_key
NameEntries ==
  <<PathEntry(PD, TRUE), PathEntry(PUA, FALSE), PathEntry(PA, FALSE),
    PathEntry(PBL, FALSE)>>

NameListings ==
  {SelectIdx(NameEntries, LAMBDA i : i \in K) : K \in SUBSET (1..Len(NameEntries))}

\* the lines of a buffer: each entry as listed, and a new name
NameLines == {<<"d", "/">>, <<"A">>, <<"a">>, <<"b", "<">>, <<"x">>}

NameBuffers == LineSeqs(NameLines, MaxLines)

InitPlanNames ==
  /\ original \in NameListings
  /\ lines \in NameBuffers
  /\ fs = FsOf(original)
  /\ fs0 = fs
  /\ denied = {}
  /\ plan = NoPlan
  /\ errors = <<>>
  /\ pc = "edited"
  /\ todo = <<>>
  /\ status_by_id = NoStatus
  /\ results = <<>>
  /\ AppIdle
  /\ order = NoOrder

SpecPlanNames == InitPlanNames /\ [][NextPlan]_vars

(***************************************************************************)
(* _apply_file_buffer from the buffer to the report: compute_plan,         *)
(* validate_plan and, when there is no error, apply_plan on the same       *)
(* filesystem.  A root holding the directory d and the file a; buffers     *)
(* that rename d, move a below d, below the new directory x or below X,    *)
(* and make a file x and a directory below it.                             *)
(***************************************************************************)
ChainListings ==
  {<<PathEntry(PD, TRUE), PathEntry(PA, FALSE)>>,
   <<PathEntry(PA, FALSE)>>}

ChainLines ==
  {<<"d", "/">>, <<"e", "/">>, <<"d", "/", "a">>, <<"a">>, <<"x">>,
   <<"x", "/">>, <<"x", "/", "y", "/">>, <<"X", "/", "a">>}

ChainBuffers == LineSeqs(ChainLines, MaxLines)

InitPlanApply ==
  /\ original \in ChainListings
  /\ lines \in ChainBuffers
  /\ fs = FsOf(original)
  /\ fs0 = fs
  /\ denied = {}
  /\ plan = NoPlan
  /\ errors = <<>>
  /\ pc = "edited"
  /\ todo = <<>>
  /\ status_by_id = NoStatus
  /\ results = <<>>
  /\ AppIdle
  /\ order = NoOrder

\* apply_plan(plan) is entered with the plan validate_plan found no error in
ApplyAccepted ==
  /\ pc = "validated"
  /\ errors = <<>>
  /\ pc' = "creates"
  /\ todo' = OpsOfType(plan.operations, {"create_dir", "create_file"})
  /\ status_by_id' = NoStatus
  /\ results' = <<>>
  /\ UNCHANGED fs
  /\ ExecutorFrame

NextPlanApply ==
  \/ CallComputePlan
  \/ CallValidatePlan
  \/ ApplyAccepted
  \/ CreateStep
  \/ BeginMoves
  \/ MoveStep
  \/ EndMoves
  \/ DeleteStep
  \/ Return

SpecPlanApply == InitPlanApply /\ [][NextPlanApply]_vars

(***************************************************************************)
(* Claims about the executor (checked under SpecApply).                    *)
(***************************************************************************)
Ops == plan.operations

Finished == pc = "done"

\* the result apply_plan reports for the operation at place i
ResultOf(i) == results[CHOOSE k \in 1..Len(results) : results[k].origin = i]

HasResult(i) == \E k \in 1..Len(results) : results[k].origin = i

\* the plan's operations are moves of regular files that form rename
\* cycles: no move onto itself, sources pairwise distinct, targets pairwise
\* distinct, every target the source of another move
IsFileCyclePlan ==
  /\ Len(Ops) >= 2
  /\ \A i \in 1..Len(Ops) :
       /\ Ops[i].op_type = "move" /\ ~Ops[i].is_dir
       /\ Ops[i].source # None /\ Ops[i].target # None
       /\ Ops[i].source # Ops[i].target
       /\ Exists(fs0, Ops[i].source) /\ fs0[Ops[i].source].kind = "file"
       /\ \E j \in 1..Len(Ops) : j # i /\ Ops[j].source = Ops[i].target
  /\ \A i, j \in 1..Len(Ops) :
       i # j => Ops[i].source # Ops[j].source /\ Ops[i].target # Ops[j].target

\* C1: after apply_plan on a plan whose moves form a swap or a longer rename
\* cycle over regular files, with no operating-system failure, every target
\* holds what its move's source held before, no result is an error, and
\* nothing else on the filesystem changed (nothing clobbered, no temporary
\* name left behind).
C1_CycleSwapsContent ==
  (Finished /\ IsFileCyclePlan /\ denied = {}) =>
    /\ \A i \in 1..Len(Ops) :
         Exists(fs, Ops[i].target) /\ fs[Ops[i].target] = fs0[Ops[i].source]
    /\ CountStatus(results, "error") = 0
    /\ DOMAIN fs = DOMAIN fs0
    /\ \A q \in DOMAIN fs : (\A i \in 1..Len(Ops) : Ops[i].target # q) => fs[q] = fs0[q]

\* a three-cycle has been applied
C1_Witness ==
  Finished /\ IsFileCyclePlan /\ denied = {} /\ Len(Ops) = 3
  /\ Len(results) = 3

\* operation j of the plan names q or a directory above q
Touches(j, q) ==
  \/ Ops[j].source # None /\ IsUnder(q, Ops[j].source)
  \/ Ops[j].target # None /\ IsUnder(q, Ops[j].target)

\* operation i deletes a directory that existed with something in it that
\* no other operation of the plan names
DeletesOccupiedDir(i) ==
  /\ Ops[i].op_type = "delete" /\ Ops[i].is_dir /\ Ops[i].source # None
  /\ IsDir(fs0, Ops[i].source)
  /\ \E q \in Descendants(fs0, Ops[i].source) :
       \A j \in 1..Len(Ops) : j # i => ~Touches(j, q)

\* C2 (as claimed): a Delete(is_dir = true) on a directory that still holds
\* files, none of them planned for deletion, succeeds by removing the
\* directory with its contents: its result is Ok, no result is an error and
\* the directory is gone.
C2_RecursiveDelete ==
  Finished =>
    \A i \in 1..Len(Ops) :
      (DeletesOccupiedDir(i) /\ Len(Ops) = 1 /\ denied = {}) =>
        /\ ResultOf(i).status = "ok"
        /\ CountStatus(results, "error") = 0
        /\ ~Exists(fs, Ops[i].source)

FOLDER_ICON == "uF07B"

\* _FILE_ICON, U+F0F6
FILE_ICON == "uF0F6"

\* known_file_icons()
ICON_SET ==
  {FOLDER_ICON, FILE_ICON, "uF15C", "uF008", "uF001", "uF03E", "uF1C6",
   "uF1C1", "uF17A"}

\* strip_icon_prefix(text)
strip_icon_prefix(text) ==
  IF Len(text) >= 2 /\ text[1] \in ICON_SET /\ text[2] = " "
    THEN DropFirst(text, 2)
    ELSE text

\* is_delete_marker_line(line)
is_delete_marker_line(line) == StartsWith(Upper(Strip(line)), DELETE_MARKER)

\* strip_delete_marker without the ".lstrip()" of its remainder
StripDeleteMarkerUntrimmed(line) ==
  IF ~is_delete_marker_line(line) THEN line
  ELSE DropFirst(Strip(line), Len(DELETE_MARKER))

\* strip_delete_marker(line)
strip_delete_marker(line) ==
  IF ~is_delete_marker_line(line) THEN line
  ELSE LStrip(DropFirst(Strip(line), Len(DELETE_MARKER)))

\* toggle_delete_marker(line)
toggle_delete_marker(line) ==
  LET text == RStripSet(line, {"\n"})
  IN IF Strip(text) = <<>> THEN text
     ELSE IF is_delete_marker_line(text) THEN strip_delete_marker(text)
     ELSE DELETE_MARKER \o <<" ">> \o Strip(text)

\* _strip_buffer_line_for_path(line)
StripBufferLineForPath(line) ==
  IF Strip(line) = <<>> THEN <<>>
  ELSE IF is_delete_marker_line(Strip(line))
    THEN Strip(strip_icon_prefix(Strip(strip_delete_marker(Strip(line)))))
  ELSE Strip(strip_icon_prefix(Strip(line)))

\* _is_parent_line(line)
IsParentLine(line) == StripBufferLineForPath(line) = DotDot

\* the remainder of a delete-marker line as _clean_buffer_line_for_plan
\* writes it back
CleanMarkerRemainder(remainder) ==
  IF remainder = <<>> THEN DELETE_MARKER
  ELSE DELETE_MARKER \o <<" ">> \o remainder

\* _clean_buffer_line_for_plan(line)
CleanBufferLineForPlan(line) ==
  IF Strip(line) = <<>> THEN <<>>
  ELSE IF is_delete_marker_line(Strip(line))
    THEN CleanMarkerRemainder(
           Strip(strip_icon_prefix(Strip(strip_delete_marker(Strip(line))))))
  ELSE strip_icon_prefix(Strip(line))

\* file_icon_for_kind(kind, path); no name of the model has an extension
\* of _ICON_BY_EXT
FileIconForKind(is_dir) == IF is_dir THEN FOLDER_ICON ELSE FILE_ICON

\* _format_entry_line(root, entry)
FormatEntryLine(root, entry) ==
  <<FileIconForKind(entry.is_dir), " ">>
  \o AsPosix(RelativeTo(entry.path, root))
  \o (IF entry.is_dir THEN <<"/">> ELSE <<>>)

\* _format_parent_line(root)
FormatParentLine == <<FOLDER_ICON, " ", ".", ".">>

\* the ASCII characters " " (32) to "_" (95) in code point order
AsciiToUnderscore ==
  <<" ", "!", "\"", "#", "$", "%", "&", "'", "(", ")", "*", "+", ",", "-", ".", "/",
    "0", "1", "2", "3", "4", "5", "6", "7", "8", "9", ":", ";", "<", "=", ">", "?",
    "@", "A", "B", "C", "D", "E", "F", "G", "H", "I", "J", "K", "L", "M", "N", "O",
    "P", "Q", "R", "S", "T", "U", "V", "W", "X", "Y", "Z", "[", "\\", "]", "^", "_">>

\* the ASCII characters "a" (97) to "~" (126) in code point order
AsciiFromA ==
  <<"a", "b", "c", "d", "e", "f", "g", "h", "i", "j", "k", "l", "m", "n", "o",
    "p", "q", "r", "s", "t", "u", "v", "w", "x", "y", "z", "{", "|", "}", "~">>

\* ord(c)
Ord(c) ==
  IF \E i \in 1..Len(AsciiFromA) : AsciiFromA[i] = c
    THEN 96 + (CHOOSE i \in 1..Len(AsciiFromA) : AsciiFromA[i] = c)
    ELSE 31 + (CHOOSE i \in 1..Len(AsciiToUnderscore) : AsciiToUnderscore[i] = c)

\* s < t on Python strings
StrLess(s, t) ==
  \E k \in 1..Len(t) :
    /\ k <= Len(s) + 1
    /\ \A i \in 1..(k - 1) : s[i] = t[i]
    /\ (k = Len(s) + 1 \/ Ord(s[k]) < Ord(t[k]))

\* path_sort_key(path)
path_sort_key(path) == Casefold(Name(path))

\* the orders list.sort(key=path_sort_key) can leave the paths of S in,
\* scandir yielding them in any order
SortedByKey(S) ==
  {s \in [1..Cardinality(S) -> S] :
     /\ \A i, j \in 1..Cardinality(S) : i # j => s[i] # s[j]
     /\ \A i, j \in 1..Cardinality(S) :
          i < j => ~StrLess(path_sort_key(s[j]), path_sort_key(s[i]))}

\* _entry_is_hidden(entry)
EntryIsHidden(p) == Name(p)[1] = "."

\* the listings _list_file_entries() can return for root on the tree:
\* directories, then files, each sorted by path_sort_key
ListFileEntries(tree, root) ==
  LET shown == {p \in DOMAIN tree : Len(p) = Len(root) + 1 /\ IsUnder(p, root)
                                  /\ ~EntryIsHidden(p)}
  IN {[i \in 1..Len(ds) |-> PathEntry(ds[i], TRUE)]
      \o [i \in 1..Len(fl) |-> PathEntry(fl[i], FALSE)] :
        ds \in SortedByKey({p \in shown : IsDir(tree, p)}),
        fl \in SortedByKey({p \in shown : ~IsDir(tree, p)})}

\* the text _populate_file_buffer writes for a listing
BufferTextOf(root, entries) ==
  <<FormatParentLine>> \o [i \in 1..Len(entries) |-> FormatEntryLine(root, entries[i])]

(***************************************************************************)
(* app.py: the apply flow.  The file picker is open on Root; the user      *)
(* edits the buffer, asks to apply it, and answers the preview.            *)
(***************************************************************************)
\* _populate_file_buffer() on the tree t: the buffer text and the original
\* entries are replaced by a fresh listing
Populate(t) ==
  IF drive_picker_active
    THEN lines' = <<>> /\ original' = <<>>
    ELSE \E entries \in ListFileEntries(t, Root) :
           /\ original' = entries
           /\ lines' = BufferTextOf(Root, entries)

\* lines the user leaves in the buffer: a listed file, a listed file
\* marked for deletion, a new name, a path out of the root
BufferLines ==
  {FormatEntryLine(Root, PathEntry(PA, FALSE)),
   DELETE_MARKER \o <<" ">> \o FormatEntryLine(Root, PathEntry(PA, FALSE)),
   <<"b">>,
   <<".", ".", "/", "e">>}

BufferTexts == LineSeqs(BufferLines, MaxBufferLines)

Init ==
  /\ \E listing \in Listings : fs = FsOf(listing)
  /\ fs0 = fs
  /\ denied \in ApplyDenied
  /\ order = NoOrder
  /\ drive_picker_active \in BOOLEAN
  /\ \E entries \in ListFileEntries(fs, Root) :
       IF drive_picker_active
         THEN lines = <<>> /\ original = <<>>
         ELSE lines = BufferTextOf(Root, entries) /\ original = entries
  /\ plan = NoPlan
  /\ errors = <<>>
  /\ pc = "normal"
  /\ todo = <<>>
  /\ status_by_id = NoStatus
  /\ results = <<>>
  /\ mode_status = <<>>
  /\ confirmed = "unasked"
  /\ confirmations = <<>>

\* the user edits the text of the file buffer
EditBuffer ==
  /\ pc = "normal"
  /\ lines' \in BufferTexts
  /\ UNCHANGED <<fs, denied, fs0, original, plan, errors, pc, todo, status_by_id,
                 results, mode_status, confirmed, drive_picker_active,
                 confirmations, order>>

\* the lines _apply_file_buffer hands to compute_plan
LinesForPlan(text) ==
  LET kept == SelectIdx(text, LAMBDA i : ~IsParentLine(text[i]))
  IN [i \in 1..Len(kept) |-> CleanBufferLineForPlan(kept[i])]

\* the status line of the first validation error
FirstErrorStatus(first) ==
  IF first.path # None THEN <<first.message, " (", first.path, ")">>
  ELSE <<first.message>>

\* _apply_file_buffer, once the plan p is computed and validate_plan has
\* returned errs, without its "if errors: ... return"
ApplyFileBufferIgnoringErrors(p, errs) ==
  IF p.operations = <<>>
    THEN /\ Populate(fs)
         /\ mode_status' = <<"No changes to apply.">>
         /\ UNCHANGED <<plan, errors, pc, confirmations>>
  ELSE /\ plan' = p
       /\ errors' = errs
       /\ confirmations' = collect_confirmations(p, fs)
       /\ pc' = "preview"
       /\ UNCHANGED <<lines, original, mode_status>>

\* the same as the code has it; plan and errors are locals, the plan
\* lives on in the preview's callback
ApplyFileBufferWith(p, errs) ==
  IF errs # <<>>
    THEN /\ mode_status' = FirstErrorStatus(errs[1])
         /\ UNCHANGED <<lines, original, plan, errors, pc, confirmations>>
  ELSE IF p.operations = <<>>
    THEN /\ Populate(fs)
         /\ mode_status' = <<"No changes to apply.">>
         /\ UNCHANGED <<plan, errors, pc, confirmations>>
  ELSE /\ plan' = p
       /\ errors' = errs
       /\ confirmations' = collect_confirmations(p, fs)
       /\ pc' = "preview"
       /\ UNCHANGED <<lines, original, mode_status>>

\* _apply_file_buffer once the plan p is computed
ApplyFileBufferPlanned(p) == ApplyFileBufferWith(p, validate_plan(p, fs))

\* _apply_file_buffer(exit_after): exit_after only moves the focus
ApplyFileBuffer ==
  /\ pc = "normal"
  /\ IF drive_picker_active
       THEN /\ mode_status' = <<"Select a drive before applying changes.">>
            /\ UNCHANGED <<lines, original, plan, errors, pc, confirmations>>
       ELSE ApplyFileBufferPlanned(compute_plan(Root, original, LinesForPlan(lines)))
  /\ UNCHANGED <<fs, denied, fs0, todo, status_by_id, results, confirmed,
                 drive_picker_active, order>>

\* PlanPreviewScreen answers True: _apply_plan_confirmed calls apply_plan
PreviewConfirm ==
  /\ pc = "preview"
  /\ confirmed' = "yes"
  /\ fs0' = fs
  /\ pc' = "creates"
  /\ todo' = OpsOfType(plan.operations, {"create_dir", "create_file"})
  /\ status_by_id' = NoStatus
  /\ results' = <<>>
  /\ UNCHANGED <<fs, denied, original, lines, plan, errors, mode_status,
                 drive_picker_active, confirmations, order>>

\* PlanPreviewScreen answers False: _apply_plan_confirmed returns early
PreviewDecline ==
  /\ pc = "preview"
  /\ mode_status' = <<"Apply canceled.">>
  /\ Populate(fs)
  /\ plan' = NoPlan
  /\ confirmations' = <<>>
  /\ pc' = "normal"
  /\ UNCHANGED <<fs, denied, fs0, errors, todo, status_by_id, results, confirmed,
                 drive_picker_active, order>>

\* _apply_plan_confirmed after apply_plan has returned its report
ReportApplied ==
  /\ pc = "done"
  /\ mode_status' = <<"Applied", CountStatus(results, "ok"),
                      CountStatus(results, "skipped"), CountStatus(results, "error")>>
  /\ Populate(fs)
  /\ plan' = NoPlan
  /\ status_by_id' = NoStatus
  /\ results' = <<>>
  /\ fs0' = fs
  /\ confirmed' = "unasked"
  /\ confirmations' = <<>>
  /\ pc' = "normal"
  /\ UNCHANGED <<fs, denied, errors, todo, drive_picker_active, order>>

Next ==
  \/ EditBuffer
  \/ ApplyFileBuffer
  \/ PreviewConfirm
  \/ PreviewDecline
  \/ CreateStep
  \/ BeginMoves
  \/ MoveStep
  \/ EndMoves
  \/ DeleteStep
  \/ Return
  \/ ReportApplied

Spec == Init /\ [][Next]_vars

(***************************************************************************)
(* toggle_delete_marker on drawn lines, applied twice over.  `lines` holds *)
(* the line given and what each call returned.                             *)
(***************************************************************************)
ToggleChars == {"a", "/", " ", "\n", "["}

ToggleTexts == LineSeqs(ToggleChars, MaxChars)

\* the texts as they are, and behind a marker: as the function writes it,
\* in lower case, without the space, indented
ToggleLines ==
  ToggleTexts
  \cup {DELETE_MARKER \o <<" ">> \o t : t \in ToggleTexts}
  \cup {<<"[", "d", "e", "l", "e", "t", "e", "]">> \o t : t \in ToggleTexts}
  \cup {<<" ">> \o DELETE_MARKER \o t : t \in ToggleTexts}

InitToggle ==
  /\ original = <<>>
  /\ lines \in {<<l>> : l \in ToggleLines}
  /\ errors = <<>>
  /\ AppIdle
  /\ order = NoOrder
  /\ fs = ApplyFs
  /\ fs0 = fs
  /\ denied = {}
  /\ todo = <<>>
  /\ status_by_id = NoStatus
  /\ results = <<>>
  /\ plan = NoPlan
  /\ pc = "line"

\* toggle_delete_marker(line), and toggle_delete_marker of what it returned
ToggleLine ==
  /\ pc \in {"line", "toggled"}
  /\ lines' = Append(lines, toggle_delete_marker(lines[Len(lines)]))
  /\ pc' = IF pc = "line" THEN "toggled" ELSE "toggled_back"
  /\ UNCHANGED <<fs, denied, fs0, original, plan, errors, todo, status_by_id,
                 results, order>>
  /\ AppFrame

NextToggle == ToggleLine

SpecToggle == InitToggle /\ [][NextToggle]_vars

(***************************************************************************)
(* Claims about the apply flow (Spec).                                     *)
(***************************************************************************)
\* apply_plan has been called and _apply_plan_confirmed has not returned
Executing == pc \in {"creates", "moves", "deletes", "done"}

\* the plan at hand was validated without an error on the filesystem it is
\* applied to, has operations, and the preview answered True
PlanCleared ==
  /\ errors = <<>>
  /\ validate_plan(plan, fs0) = <<>>
  /\ plan.operations # <<>>
  /\ confirmed = "yes"

\* C4: apply_plan runs only on a plan for which validate_plan returned no
\* error and which the user confirmed; an attempt that ends with a
\* validation error, with no operations or with a declined preview changes
\* nothing on the filesystem: every change of the filesystem is a step of
\* such a run.
C4_ApplyGated ==
  /\ [](Executing => PlanCleared)
  /\ [][fs' # fs => (Executing /\ Executing' /\ PlanCleared)]_vars

C4_Witness ==
  /\ pc = "done"
  /\ mode_status = <<"Apply canceled.">>
  /\ fs # fs0
  /\ CountStatus(results, "ok") >= 1

(***************************************************************************)
(* Claims about the planner and the validator (SpecPlan).                  *)
(***************************************************************************)
Planned == pc \in {"planned", "validated"}

Validated == pc = "validated"

\* the root-relative path of an original entry, as it is written on a line
RelText(e) == AsPosix(RelToRoot(Root, e.path))

\* an entry's line as listed: its relative path, a directory's also with a
\* trailing slash
PlainLines(e) ==
  {RelText(e) \o s : s \in IF e.is_dir THEN {<<>>, <<"/">>} ELSE {<<>>}}

\* an entry's line as listed, with whitespace around it or not
PaddedLines(e) ==
  {l \o t \o r : l \in {<<>>, <<" ">>}, t \in PlainLines(e), r \in {<<>>, <<" ">>}}

\* an entry's line as listed behind the delete sentinel, in either letter case
MarkerLines(e) ==
  {m \o <<" ">> \o t :
     m \in {DELETE_MARKER, <<"[", "d", "e", "l", "e", "t", "e", "]">>},
     t \in PlainLines(e)}

\* the buffer ls is the listing entries written back, line by line
IsListingBuffer(ls, entries) ==
  /\ Len(ls) = Len(entries)
  /\ \A k \in 1..Len(ls) : ls[k] \in PaddedLines(entries[k])

\* the entry's relative path is a line the parser reads back as that path:
\* nothing for strip() or rstrip("/\\") to remove, and not the sentinel
LineSafe(e) ==
  LET t == RelText(e)
  IN /\ Strip(t) = t
     /\ RStripSet(t, {"/", "\\"}) = t
     /\ ~IsDeleteMarker(t)

AllLineSafe(entries) == \A k \in 1..Len(entries) : LineSafe(entries[k])

\* C5 (as claimed): for any listing of pairwise distinct entries, the edited
\* lines being the entries' root-relative paths in the same order
\* (directories with or without a trailing slash, whitespace around them or
\* not), compute_plan returns no operation.
C5_RoundTripAnyListing ==
  (Planned /\ IsListingBuffer(lines, original)) => plan.operations = <<>>

\* C5 (amended): the same, for listings whose entries' relative paths are
\* lines the parser reads back unchanged (no leading or trailing
\* whitespace, no trailing slash or backslash, not starting with the
\* delete sentinel).
C5_RoundTrip ==
  (Planned /\ IsListingBuffer(lines, original) /\ AllLineSafe(original))
    => plan.operations = <<>>

C5_Witness ==
  /\ Planned
  /\ original = <<PathEntry(PD, TRUE), PathEntry(PA, FALSE)>>
  /\ lines = << <<"d", "/">>, <<"a", " ">> >>
  /\ plan.operations = <<>>
  /\ Len(plan.edited_entries) = 2

\* the norms compute_plan aligns
OriginalNorms == [i \in 1..Len(original) |-> NormalizeRel(RelToRoot(Root, original[i].path))]

EditedNorms == [i \in 1..Len(plan.edited_entries) |-> plan.edited_entries[i].norm]

\* C6: for every replace run of the alignment, the k-th original entry of
\* the run gets a Move from its path to the resolved path of the k-th
\* edited entry of the run; and for the listing of two files edited to a new
\* name and to a path in a subdirectory the plan is exactly these two Moves.
C6_ReplaceRunPairsMoves ==
  Planned =>
    /\ LET opcodes == GetOpcodes(OriginalNorms, EditedNorms)
       IN \A n \in 1..Len(opcodes) :
            opcodes[n].tag = "replace" =>
              \A k \in 0..(Len(original) - 1) :
                (k < opcodes[n].i2 - opcodes[n].i1 /\ k < opcodes[n].j2 - opcodes[n].j1) =>
                  \E o \in 1..Len(plan.operations) :
                    plan.operations[o] =
                      Operation("move", original[opcodes[n].i1 + k + 1].path,
                                plan.edited_entries[opcodes[n].j1 + k + 1].path,
                                original[opcodes[n].i1 + k + 1].is_dir)
    /\ (original = <<PathEntry(PA, FALSE), PathEntry(PW, FALSE)>>
        /\ lines = << <<"b">>, <<"d", "/", "b">> >>)
         => plan.operations =
              <<Operation("move", PA, PB, FALSE),
                Operation("move", PW, P(<< <<"d">>, <<"b">> >>), FALSE)>>

\* the Deletes of the entries whose index is not in kept, in listing order
DeletesOfMissing(entries, kept) ==
  LET gone == SelectIdx(entries, LAMBDA i : i \notin kept)
  IN [k \in 1..Len(gone) |-> Operation("delete", gone[k].path, None, gone[k].is_dir)]

\* the buffer ls is the listing with exactly the entries of kept left, each
\* on its line as listed
IsListingWithout(ls, entries, kept) ==
  LET left == SelectIdx(entries, LAMBDA i : i \in kept)
  IN /\ Len(ls) = Len(left)
     /\ \A k \in 1..Len(ls) : ls[k] \in PlainLines(left[k])

\* C7 (as claimed): the edited buffer being the listing with some lines
\* removed and the others unchanged, the operations are exactly one Delete
\* per removed entry (its path, its is_dir flag), for any listing.
C7_ImplicitDeleteAnyListing ==
  Planned =>
    \A kept \in SUBSET (1..Len(original)) :
      (kept # 1..Len(original) /\ IsListingWithout(lines, original, kept))
        => plan.operations = DeletesOfMissing(original, kept)

\* C7 (amended): the same, when the relative paths of the entries that stay
\* are lines the parser reads back unchanged.
C7_ImplicitDelete ==
  Planned =>
    \A kept \in SUBSET (1..Len(original)) :
      (/\ kept # 1..Len(original)
       /\ IsListingWithout(lines, original, kept)
       /\ \A k \in kept : LineSafe(original[k]))
        => plan.operations = DeletesOfMissing(original, kept)

C7_Witness ==
  /\ Planned
  /\ original = PlanEntries
  /\ lines = << <<"a">> >>
  /\ plan.operations = <<Operation("delete", PD, None, TRUE),
                         Operation("delete", PW, None, FALSE)>>

\* the lines of ls but line k (counted from 1)
WithoutLine(ls, k) == SelectIdx(ls, LAMBDA i : i # k)

\* the buffer ls is the listing with the line of entry k replaced by a
\* delete marker for it, every other line as listed
IsListingWithMarker(ls, entries, k) ==
  /\ Len(ls) = Len(entries)
  /\ ls[k] \in MarkerLines(entries[k])
  /\ \A j \in 1..Len(ls) : j # k => ls[j] \in PlainLines(entries[j])

\* the plan for ls has the operations of the plan for ls without line k,
\* which are the one Delete of entry k, and no parse error
MarkerActsAsRemoval(k) ==
  /\ plan.operations = compute_plan(Root, original, WithoutLine(lines, k)).operations
  /\ plan.operations =
       <<Operation("delete", original[k].path, None, original[k].is_dir)>>
  /\ plan.parse_errors = <<>>

\* C8 (as claimed): for any listing and any entry of it, replacing the
\* entry's line by "[DELETE] <entry>" and leaving the other lines unchanged
\* gives the operations that removing the line gives, exactly one Delete
\* of that entry, and no parse error.
C8_DeleteMarkerAnyListing ==
  Planned =>
    \A k \in 1..Len(original) :
      IsListingWithMarker(lines, original, k) => MarkerActsAsRemoval(k)

\* C8 (amended): the same, for listings whose entries' relative paths are
\* lines the parser reads back unchanged.
C8_DeleteMarker ==
  Planned =>
    \A k \in 1..Len(original) :
      (IsListingWithMarker(lines, original, k) /\ AllLineSafe(original))
        => MarkerActsAsRemoval(k)

C8_Witness ==
  /\ Planned
  /\ original = <<PathEntry(PD, TRUE), PathEntry(PA, FALSE)>>
  /\ lines = << <<"d", "/">>, DELETE_MARKER \o <<" ", "a">> >>
  /\ Len(plan.delete_markers) = 1
  /\ plan.operations = <<Operation("delete", PA, None, FALSE)>>

IsBlank(line) == Strip(line) = <<>>

\* the buffer without its empty and whitespace-only lines
NonBlankLines(ls) == SelectIdx(ls, LAMBDA i : ~IsBlank(ls[i]))

\* C9: a buffer with empty or whitespace-only lines anywhere gets the
\* operations and the parse errors of the buffer without them.
C9_BlankLinesIgnored ==
  Planned =>
    LET bare == compute_plan(Root, original, NonBlankLines(lines))
    IN /\ plan.operations = bare.operations
       /\ plan.parse_errors = bare.parse_errors

C9_Witness ==
  /\ Planned
  /\ Len(lines) = 3
  /\ lines[1] = <<>>
  /\ lines[2] = <<" ">>
  /\ ~IsBlank(lines[3])
  /\ plan.parse_errors # <<>>
  /\ plan.operations # <<>>

\* the messages _validate_relative_path returns
NameErrors ==
  {"Path escapes the current root.", "Path resolves to the root directory.",
   "Path component is invalid.", "Path component ends with a space or dot.",
   "Path component contains invalid characters.",
   "Path component uses a reserved name."}

\* edited entry k repeats the path of an earlier edited entry
RepeatsEarlier(k) ==
  \E j \in 1..(k - 1) :
    PathKey(plan.edited_entries[j].path) = PathKey(plan.edited_entries[k].path)

\* edited entry k has a reserved character in its first bad component
HasReservedChar(k) ==
  LET rel == plan.edited_entries[k].rel
  IN \E c \in 1..Len(rel) :
       /\ \E x \in 1..Len(rel[c]) : rel[c][x] \in INVALID_CHARS
       /\ rel[c][Len(rel[c])] \notin {" ", "."}
       /\ \A b \in 1..(c - 1) : InvalidComponent(rel[b]) = ""

\* line k of the buffer is a path outside the root
EscapesRoot(k) ==
  /\ ~IsBlank(lines[k])
  /\ ~IsDeleteMarker(Strip(lines[k]))
  /\ LET text == RStripSet(Strip(lines[k]), {"/", "\\"})
     IN text # <<>> /\ ~IsAbsoluteText(text)
        /\ ~IsUnder(Resolve(Root \o TextParts(text)), Root)

EscapedPath(k) == Resolve(Root \o TextParts(RStripSet(Strip(lines[k]), {"/", "\\"})))

Reported(message, path) ==
  \E n \in 1..Len(errors) : errors[n] = ValidationError(message, path)

\* C10: validate_plan reports every violation of the plan at once: an
\* error for each repeated edited path, for each line that escapes the
\* root and for each entry with a reserved character, and every parse
\* error of the plan.
C10_ValidateReportsAll ==
  Validated =>
    /\ \A k \in 1..Len(plan.edited_entries) :
         RepeatsEarlier(k) =>
           Reported("Duplicate edited path.", plan.edited_entries[k].path)
    /\ \A k \in 1..Len(lines) :
         EscapesRoot(k) =>
           Reported("Path escapes the current root.", EscapedPath(k))
    /\ \A k \in 1..Len(plan.edited_entries) :
         HasReservedChar(k) =>
           Reported("Path component contains invalid characters.",
                    plan.edited_entries[k].path)
    /\ \A n \in 1..Len(plan.parse_errors) :
         Cardinality({m \in 1..Len(errors) : errors[m] = plan.parse_errors[n]})
           >= Cardinality({m \in 1..Len(plan.parse_errors) :
                             plan.parse_errors[m] = plan.parse_errors[n]})

C10_Witness ==
  /\ Validated
  /\ original = <<>>
  /\ lines = << <<"x">>, <<"x">>, <<".", ".", "/", "e">>, <<"b", "<">> >>
  /\ Len(plan.parse_errors) = 1
  /\ Len(errors) >= 3

\* the Moves of directories whose target is q, a path at or below their
\* source
DirMovesIntoSelf(q) ==
  {k \in 1..Len(plan.operations) :
     /\ plan.operations[k].op_type = "move"
     /\ plan.operations[k].is_dir
     /\ plan.operations[k].target = q
     /\ IsUnder(q, plan.operations[k].source)}

\* the errors of validate_plan that say so of the path q
IntoSelfErrors(q) ==
  {n \in 1..Len(errors) :
     errors[n] = ValidationError("Cannot move a directory into itself.", q)}

\* C11: validate_plan reports "Cannot move a directory into itself." once
\* for every Move with is_dir = true whose target lies inside its source's
\* subtree, with that target, and for nothing else: not for a file Move,
\* not for a directory Move to a target outside its source.
C11_MoveIntoItself ==
  Validated =>
    /\ \A k \in 1..Len(plan.operations) :
         Cardinality(IntoSelfErrors(plan.operations[k].target))
           = Cardinality(DirMovesIntoSelf(plan.operations[k].target))
    /\ \A n \in 1..Len(errors) :
         errors[n].message = "Cannot move a directory into itself."
           => DirMovesIntoSelf(errors[n].path) # {}

\* the directory d was edited to d/b, next to a file Move
C11_Witness ==
  /\ Validated
  /\ DirMovesIntoSelf(P(<< <<"d">>, <<"b">> >>)) # {}
  /\ IntoSelfErrors(P(<< <<"d">>, <<"b">> >>)) # {}
  /\ \E k \in 1..Len(plan.operations) :
       plan.operations[k].op_type = "move" /\ ~plan.operations[k].is_dir

(***************************************************************************)
(* More claims about the executor (SpecApply).                             *)
(***************************************************************************)
\* the places of the plan's operations of the given types
PlacesOfType(types) == {i \in 1..Len(Ops) : Ops[i].op_type \in types}

\* this step runs the operation, or a move step of the operation, at the
\* head of todo
Runs(i) == todo # <<>> /\ todo' = Tail(todo) /\ Head(todo).origin = i

\* C12: apply_plan runs in phases, whatever the order of plan.operations:
\* when a move step runs every create has its result; when a delete runs
\* every create and every move has its result and no move step is left;
\* when a directory Delete runs every file Delete has its result; and no
\* create runs once a move or a delete has run.
C12_PhaseOrder ==
  [][\A i \in 1..Len(Ops) :
       Runs(i) =>
         /\ Ops[i].op_type \in {"create_dir", "create_file"} =>
              /\ pc = "creates"
              /\ \A j \in PlacesOfType({"move", "delete"}) : ~HasResult(j)
         /\ Ops[i].op_type = "move" =>
              /\ pc = "moves"
              /\ \A j \in PlacesOfType({"create_dir", "create_file"}) : HasResult(j)
              /\ \A j \in PlacesOfType({"delete"}) : ~HasResult(j)
         /\ Ops[i].op_type = "delete" =>
              /\ pc = "deletes"
              /\ \A j \in PlacesOfType({"create_dir", "create_file", "move"}) :
                   HasResult(j)
              /\ Ops[i].is_dir =>
                   \A j \in PlacesOfType({"delete"}) : ~Ops[j].is_dir => HasResult(j)]_vars

\* a plan listing a directory Delete, a Move and a create in that order has
\* been applied: the create ran first, the Delete last
C12_Witness ==
  /\ Finished
  /\ Ops = <<Operation("delete", PS, None, TRUE),
             Operation("move", PA, PX, FALSE),
             Operation("create_file", None, PX, FALSE)>>
  /\ [k \in 1..Len(results) |-> results[k].origin] = <<3, 2, 1>>

\* the results that name the operation at place i
ResultsOf(i) == {k \in 1..Len(results) : results[k].origin = i}

\* C13: the report of apply_plan holds exactly one result per operation of
\* the plan, that of a move that took two steps and that of a skipped
\* operation included, each naming its operation, so that ok_count +
\* error_count + skipped_count = len(plan.operations).
C13_OneResultPerOperation ==
  Finished =>
    /\ Len(results) = Len(Ops)
    /\ \A i \in 1..Len(Ops) :
         /\ Cardinality(ResultsOf(i)) = 1
         /\ ResultOf(i).operation = Ops[i]
         /\ ResultOf(i).status \in {"ok", "error", "skipped"}
    /\ CountStatus(results, "ok") + CountStatus(results, "error")
         + CountStatus(results, "skipped") = Len(Ops)

\* a swap (one of its moves goes through a temporary name) and a move onto
\* itself (skipped) have been applied
C13_Witness ==
  /\ Finished
  /\ Ops = <<Operation("move", PA, PB, FALSE), Operation("move", PB, PA, FALSE),
             Operation("move", PC, PC, FALSE)>>
  /\ CountStatus(results, "ok") = 2
  /\ CountStatus(results, "skipped") = 1
  /\ Exists(fs, PA) /\ fs[PA] = fs0[PB]

\* an exception has left apply_plan
Escaped == pc = "raised"

\* the operating system failed the call of operation i, a create or a
\* delete on a path of denied that was otherwise in order
DeniedCall(i) ==
  \/ /\ Ops[i].op_type = "delete" /\ ~Ops[i].is_dir
     /\ Ops[i].source \in denied
     /\ Exists(fs, Ops[i].source)
  \/ /\ Ops[i].op_type = "create_file"
     /\ Ops[i].target \in denied
     /\ ~Exists(fs, Ops[i].target)

\* C14 (as claimed): an operating-system failure in one operation never
\* aborts apply_plan: no exception leaves it, and once it has returned the
\* failed operation has an Error result with the system's message and
\* every operation of the plan has its own result.
C14_FailuresRecorded ==
  /\ ~Escaped
  /\ Finished =>
       \A i \in 1..Len(Ops) :
         /\ HasResult(i)
         /\ DeniedCall(i) =>
              ResultOf(i).status = "error" /\ ResultOf(i).message = "Permission denied"

(***************************************************************************)
(* Claims about _order_moves (SpecOrder, FairOrder).                       *)
(***************************************************************************)
\* the pending moves that still wait on the source their operation names
Waiting(st) ==
  {k \in 1..Len(st.pending) : st.pending[k].source = st.pending[k].operation.source}

\* no pending move can run as it is: the turn that comes breaks a cycle
Blocked(st) ==
  /\ st.pending # <<>>
  /\ \A k \in 1..Len(st.pending) : PathKey(st.pending[k].target) \in st.source_keys

\* C15: the loop of _order_moves ends for every list of moves (cycles,
\* several cycles, chains into a cycle, shared sources or targets).  A turn
\* of the loop either runs at least one pending move, or, when none can
\* run, sends one move that still waits on its own source to a temporary
\* name: fewer moves are left on their sources after it, as many are
\* pending, so that no cycle is broken forever.
C15_OrderMovesTerminates ==
  /\ (pc = "ordering") ~> (pc = "ordered")
  /\ [][(pc = "ordering" /\ order' # order) =>
          IF Blocked(order)
            THEN /\ Len(order'.pending) = Len(order.pending)
                 /\ Cardinality(Waiting(order')) < Cardinality(Waiting(order))
                 /\ Len(order'.steps) = Len(order.steps) + 1
            ELSE /\ Len(order'.pending) < Len(order.pending)
                 /\ Cardinality(Waiting(order')) <= Cardinality(Waiting(order))]_vars

\* two separate swaps have been ordered: six steps, two of them to a
\* temporary name
C15_Witness ==
  /\ pc = "ordered"
  /\ plan.operations = <<Operation("move", PA, PB, FALSE), Operation("move", PB, PA, FALSE),
                         Operation("move", PC, PX, FALSE), Operation("move", PX, PC, FALSE)>>
  /\ order.pending = <<>>
  /\ Len(order.steps) = 6

(***************************************************************************)
(* More claims about the planner and the validator (SpecPlan).             *)
(***************************************************************************)
\* the Operation invariant of the data model
WellFormed(op) ==
  /\ op.op_type \in {"create_file", "create_dir"} =>
       op.target # None /\ op.source = None
  /\ op.op_type = "delete" => op.source # None /\ op.target = None
  /\ op.op_type = "move" =>
       op.source # None /\ op.target # None /\ op.source # op.target

HasOpOfType(t) == \E k \in 1..Len(plan.operations) : plan.operations[k].op_type = t

\* C16: every operation of a plan compute_plan returns keeps the Operation
\* invariant: a create carries a target and no source, a Delete a source
\* and no target, a Move both, and they differ.
C16_OperationInvariant ==
  Planned =>
    \A k \in 1..Len(plan.operations) :
      /\ plan.operations[k].op_type \in {"create_file", "create_dir", "delete", "move"}
      /\ WellFormed(plan.operations[k])

\* a plan with a Move, a Delete and a create
C16_Witness ==
  /\ Planned
  /\ HasOpOfType("move") /\ HasOpOfType("delete")
  /\ HasOpOfType("create_file") \/ HasOpOfType("create_dir")

\* the pairs [orig, edit] (indices from 1) that the replace runs of the
\* alignment make of an original entry and an edited entry
ReplacePairs ==
  LET opcodes == GetOpcodes(OriginalNorms, EditedNorms)
  IN {pr \in (1..Len(original)) \X (1..Len(plan.edited_entries)) :
        \E n \in 1..Len(opcodes) :
          /\ opcodes[n].tag = "replace"
          /\ \E k \in 0..Len(original) :
               /\ k < opcodes[n].i2 - opcodes[n].i1
               /\ k < opcodes[n].j2 - opcodes[n].j1
               /\ pr[1] = opcodes[n].i1 + k + 1
               /\ pr[2] = opcodes[n].j1 + k + 1}

\* C17 (as claimed): an original entry paired in a replace run gets a Move
\* to the edited entry's path whenever the two paths differ, a difference
\* in letter case alone included, and no Move only when the two paths are
\* the same path.
C17_MoveUnlessSamePath ==
  Planned =>
    \A pr \in ReplacePairs :
      LET entry == original[pr[1]]
          target_entry == plan.edited_entries[pr[2]]
          move == Operation("move", entry.path, target_entry.path, entry.is_dir)
      IN (entry.path # target_entry.path)
           <=> (\E o \in 1..Len(plan.operations) : plan.operations[o] = move)

(***************************************************************************)
(* Claims about _apply_create.                                             *)
(***************************************************************************)
\* the create that is about to run
CreateRuns == pc = "creates" /\ todo # <<>>

\* the OS refuses to make p: the call is denied there, or p lies under
\* something that is not a directory
OSRefuses(p) ==
  \/ p \in denied
  \/ \E n \in 0..(Len(p) - 1) :
       Exists(fs, SubSeq(p, 1, n)) /\ ~IsDir(fs, SubSeq(p, 1, n))

\* the result that the step adds
Added == results'[Len(results')]

\* what a create does to a target that does not exist yet
CreatesNew(op) ==
  IF OSRefuses(op.target)
    THEN /\ Added.status = "error"
         /\ Added.message # ""
         /\ ~Exists(fs', op.target)
  ELSE /\ Added.status = "ok"
       /\ Exists(fs', op.target)
       /\ IsDir(fs', op.target) <=> op.op_type = "create_dir"
       /\ \A q \in DOMAIN fs : Exists(fs', q) /\ fs'[q] = fs[q]

\* C18 as amended: CreateDir on an existing directory is Skipped; a create
\* of any other existing target (CreateFile on an existing regular file
\* included) is an Error; both leave the filesystem as it was.  A create of
\* a target that does not exist is an Error when the OS refuses the call,
\* and otherwise makes the target, of the kind asked for, and is Ok.
C18_CreateOutcome ==
  [][CreateRuns =>
       LET op == Head(todo).operation
       IN /\ Len(results') = Len(results) + 1
          /\ Added.operation = op
          /\ IF Exists(fs, op.target)
               THEN /\ fs' = fs
                    /\ Added.status =
                         IF op.op_type = "create_dir" /\ IsDir(fs, op.target)
                           THEN "skipped" ELSE "error"
             ELSE CreatesNew(op)]_vars

\* C18 as stated: a create of a target that exists as the right kind
\* (CreateDir on a directory, CreateFile on a regular file) is Skipped, as
\* the wrong kind an Error
C18_RightKindSkipped ==
  [][CreateRuns =>
       LET op == Head(todo).operation
       IN /\ Len(results') = Len(results) + 1
          /\ Added.operation = op
          /\ IF Exists(fs, op.target)
               THEN /\ fs' = fs
                    /\ Added.status =
                         IF IsDir(fs, op.target) <=> op.op_type = "create_dir"
                           THEN "skipped" ELSE "error"
             ELSE CreatesNew(op)]_vars

\* one run in which a CreateDir is skipped on the directory s, a
\* CreateFile is an Error on the file a, and a CreateFile makes d/n with the directory d above it
C18_Witness ==
  /\ pc = "done"
  /\ \E i, j, k \in 1..Len(results) :
       /\ results[i].operation = Operation("create_dir", None, PS, TRUE)
       /\ results[i].status = "skipped"
       /\ results[j].operation = Operation("create_file", None, PA, FALSE)
       /\ results[j].status = "error"
       /\ results[j].message = "Target file already exists."
       /\ results[k].operation = Operation("create_file", None, PDN, FALSE)
       /\ results[k].status = "ok"
  /\ fs[PA] = fs0[PA]
  /\ Exists(fs, PDN)

(***************************************************************************)
(* Claims about collect_confirmations.                                     *)
(***************************************************************************)
\* a file move that would overwrite: its target is on disk and is not a
\* directory
Overwrites(op) ==
  /\ op.op_type = "move"
  /\ ~op.is_dir
  /\ Exists(fs, op.target)
  /\ ~IsDir(fs, op.target)

\* the places in plan.operations of the operations to confirm
ToConfirm ==
  {i \in 1..Len(plan.operations) :
     plan.operations[i].op_type = "delete" \/ Overwrites(plan.operations[i])}

\* how many operations to confirm stand at or before place i
ConfirmRank(i) == Cardinality({j \in ToConfirm : j <= i})

\* C19: collect_confirmations returns, in plan order, every Delete and
\* every file Move whose target is on disk and is not a directory, and
\* nothing else; it changes neither the plan nor the filesystem.
C19_Confirmations ==
  [][pc = "planned" /\ pc' = "collected" =>
       /\ Len(confirmations') = Cardinality(ToConfirm)
       /\ \A i \in ToConfirm :
            /\ confirmations'[ConfirmRank(i)].operation = plan.operations[i]
            /\ confirmations'[ConfirmRank(i)].reason =
                 IF plan.operations[i].op_type = "delete"
                   THEN "Confirm delete" ELSE "Confirm overwrite"
       /\ plan' = plan
       /\ fs' = fs]_vars

\* a plan of three, a create between a delete and an overwriting move,
\* has given two confirmations
C19_Witness ==
  /\ pc = "collected"
  /\ plan.operations = <<Operation("delete", PS, None, TRUE),
                         Operation("create_file", None, PX, FALSE),
                         Operation("move", PA, PB, FALSE)>>
  /\ Len(confirmations) = 2
  /\ confirmations[1].reason = "Confirm delete"
  /\ confirmations[2].reason = "Confirm overwrite"

(***************************************************************************)
(* Claims about the delete markers of compute_plan.                        *)
(***************************************************************************)
\* the keys of the original entries and of the edited entries of the plan
OriginalKeys ==
  [i \in 1..Len(original) |-> NormalizeRel(RelToRoot(Root, original[i].path))]

EditedKeys == {plan.edited_entries[i].norm : i \in 1..Len(plan.edited_entries)}

\* how the alignment classified the original entries, before any marker
Aligned ==
  ClassifyOpcodes(
    GetOpcodes(OriginalKeys,
               [i \in 1..Len(plan.edited_entries) |-> plan.edited_entries[i].norm]),
    Len(original)).state

\* the places in the original listing that the marker names
Named(marker) == {k \in 1..Len(original) : OriginalKeys[k] = marker.norm}

\* the parse error a marker's conflict calls for, "" for a marker that
\* passes the three checks
MarkerConflict(marker) ==
  IF Named(marker) = {} THEN "Delete marker does not match existing entry."
  ELSE IF marker.norm \in EditedKeys
    THEN "Delete marker conflicts with an edited entry."
  ELSE IF \E k \in Named(marker) : Aligned[k] = "move"
    THEN "Delete marker conflicts with a rename/move."
  ELSE ""

ConflictMessages ==
  {"Delete marker does not match existing entry.",
   "Delete marker conflicts with an edited entry.",
   "Delete marker conflicts with a rename/move."}

\* the parse errors of the plan that report a marker's conflict
ConflictErrors ==
  SelectIdx(plan.parse_errors,
            LAMBDA i : plan.parse_errors[i].message \in ConflictMessages)

\* the markers of the plan that are in conflict
ConflictingMarkers ==
  SelectIdx(plan.delete_markers,
            LAMBDA i : MarkerConflict(plan.delete_markers[i]) # "")

\* the original entry at place k is deleted by the plan
DeleteEmitted(k) ==
  Operation("delete", original[k].path, None, original[k].is_dir)
    \in Range(plan.operations)

\* some marker that passes the three checks names the entry at place k
MarkedForDelete(k) ==
  \E i \in 1..Len(plan.delete_markers) :
    /\ k \in Named(plan.delete_markers[i])
    /\ MarkerConflict(plan.delete_markers[i]) = ""

\* C20: each marker that matches no original entry, or whose key is also
\* among the edited entries, or whose entry the alignment classified as a
\* move, adds its parse error, in marker order, and changes no entry's
\* classification: an entry is deleted exactly when the alignment deletes
\* it or a marker passing all three checks names it.
C20_MarkerConflicts ==
  Planned =>
    /\ Len(ConflictErrors) = Len(ConflictingMarkers)
    /\ \A i \in 1..Len(ConflictingMarkers) :
         ConflictErrors[i] =
           ValidationError(MarkerConflict(ConflictingMarkers[i]),
                           ConflictingMarkers[i].path)
    /\ \A k \in 1..Len(original) :
         DeleteEmitted(k) <=> (Aligned[k] = "delete" \/ MarkedForDelete(k))

\* a is renamed to b and marked, and the plan keeps the Move and reports
\* the conflict
C20_Witness ==
  /\ Planned
  /\ original = <<PathEntry(PA, FALSE)>>
  /\ lines = << <<"b">>, DELETE_MARKER \o <<" ", "a">> >>
  /\ Len(plan.delete_markers) = 1
  /\ plan.operations = <<Operation("move", PA, P(<< <<"b">> >>), FALSE)>>
  /\ plan.parse_errors =
       <<ValidationError("Delete marker conflicts with a rename/move.", PA)>>

(***************************************************************************)
(* More claims about validate_plan.                                        *)
(***************************************************************************)
\* validate_plan is running: its first call, or its second
Validates == pc \in {"planned", "validated"} /\ pc' \in {"validated", "revalidated"}

PlainLine(line) ==
  /\ Strip(line) # <<>>
  /\ Strip(line) = line
  /\ ~is_delete_marker_line(line)

\* C22: a non-blank line without leading or trailing whitespace that is
\* not a delete marker comes back from toggle_delete_marker starting with
\* [DELETE], and from a second toggle as it was (a trailing "/" kept); a
\* blank line comes back without a marker.
C22_ToggleRoundTrip ==
  /\ (Len(lines) >= 2 /\ PlainLine(lines[1]))
       => StartsWith(lines[2], DELETE_MARKER)
  /\ (Len(lines) = 3 /\ PlainLine(lines[1])) => lines[3] = lines[1]
  /\ (Len(lines) >= 2 /\ Strip(lines[1]) = <<>>)
       => (Strip(lines[2]) = <<>> /\ ~is_delete_marker_line(lines[2]))

\* "a/" was marked and unmarked again
C22_Witness ==
  /\ pc = "toggled_back"
  /\ lines = << <<"a", "/">>,
                DELETE_MARKER \o <<" ", "a", "/">>,
                <<"a", "/">> >>

(***************************************************************************)
(* Claims about the step loop of _apply_moves.                             *)
(***************************************************************************)
\* the step loop is at a step
StepRuns == pc = "moves" /\ todo # <<>>

\* the move at place o has failed
Failed(o) == o \in DOMAIN status_by_id /\ status_by_id[o].status = "error"

\* C23: once a step of a move has failed, the steps left of that move are
\* not run and its one result is Error; a step of any other move is run,
\* whatever has failed before it, and the status of a move changes only at
\* a step of its own.
C23_FailureIsolation ==
  /\ [][StepRuns =>
          LET o == Head(todo).origin
          IN /\ \A q \in DOMAIN status_by_id \ {o} :
                  status_by_id'[q] = status_by_id[q]
             /\ IF Failed(o)
                  THEN fs' = fs /\ status_by_id' = status_by_id
                  ELSE fs' # fs \/ status_by_id'[o].status = "error"]_vars
  /\ [](Finished =>
          \A i \in 1..Len(Ops) :
            Failed(i) =>
              Cardinality(ResultsOf(i)) = 1 /\ ResultOf(i).status = "error")

\* the cycle b -> c, c -> a, a -> b with every call on b refused: the
\* first move fails at its step onto the temporary name, c -> a is carried
\* out after that and is Ok, and the temporary name never comes to be
C23_Witness ==
  /\ Finished
  /\ Ops = <<Operation("move", PB, PC, FALSE), Operation("move", PC, PA, FALSE),
             Operation("move", PA, PB, FALSE)>>
  /\ denied = {PB}
  /\ ResultOf(1).status = "error"
  /\ ResultOf(2).status = "ok"
  /\ fs[PA] = fs0[PC]
  /\ fs[PB] = fs0[PB]
  /\ DOMAIN fs \subseteq DOMAIN fs0

(***************************************************************************)
(* More claims about _order_moves.                                         *)
(***************************************************************************)
\* the moves given have pairwise distinct sources, as keys
DistinctSources ==
  \A i, j \in 1..Len(Ops) :
    i # j => PathKey(Ops[i].source) # PathKey(Ops[j].source)

\* the step goes onto the real target of its move
OntoRealTarget(step) == step.target = step.operation.target

\* by step k (not counted), the move at place o has left its source
CarriedOutBefore(o, k) ==
  \E j \in 1..(k - 1) :
    order.steps[j].origin = o /\ order.steps[j].source = Ops[o].source

\* C24: a step onto a move's real target is emitted only when that target
\* is no key of source_keys, which for moves with pairwise distinct
\* sources holds the sources of the moves still pending; hence, for such
\* moves, no step in the order emitted goes onto the source of a move not
\* yet carried out.
C24_OrderingSafety ==
  /\ [][(pc = "ordering" /\ order' # order) =>
          /\ \A k \in (Len(order.steps) + 1)..Len(order'.steps) :
               OntoRealTarget(order'.steps[k]) =>
                 PathKey(order'.steps[k].target) \notin order'.source_keys
          /\ DistinctSources =>
               order'.source_keys =
                 {PathKey(order'.pending[i].source) : i \in 1..Len(order'.pending)}]_vars
  /\ []((pc \in {"ordering", "ordered"} /\ DistinctSources) =>
          \A k \in 1..Len(order.steps), o \in 1..Len(Ops) :
            PathKey(Ops[o].source) = PathKey(order.steps[k].target)
              => CarriedOutBefore(o, k))

\* the chain a -> b, b -> c, c -> x given from its wrong end comes out
\* from its right end
C24_Witness ==
  /\ pc = "ordered"
  /\ Ops = <<Operation("move", PA, PB, FALSE), Operation("move", PB, PC, FALSE),
             Operation("move", PC, PX, FALSE)>>
  /\ Len(order.steps) = 3
  /\ order.steps[1].origin = 3
  /\ order.steps[2].origin = 2
  /\ order.steps[3].origin = 1

(***************************************************************************)
(* Claims about the temporary names of _order_moves.                       *)
(***************************************************************************)
\* the steps onto a temporary name, in the order they were emitted
TempSteps(steps) == SelectIdx(steps, LAMBDA i : ~OntoRealTarget(steps[i]))

\* the keys of the sources and of the targets of the plan's moves
MoveKeys ==
  {PathKey(Ops[i].source) : i \in 1..Len(Ops)}
  \cup {PathKey(Ops[i].target) : i \in 1..Len(Ops)}

UnequalRuns ==
  LET opcodes == GetOpcodes(OriginalNorms, EditedNorms)
  IN {opcodes[n] : n \in {x \in 1..Len(opcodes) :
                            /\ opcodes[x].tag = "replace"
                            /\ opcodes[x].i2 - opcodes[x].i1
                                 # opcodes[x].j2 - opcodes[x].j1}}

\* the shorter of the two lengths of a run
PairCount(run) ==
  IF run.i2 - run.i1 < run.j2 - run.j1 THEN run.i2 - run.i1 ELSE run.j2 - run.j1

\* the line of an edited entry was written with a slash or a backslash at
\* its end
WrittenAsDir(entry) ==
  LET text == Strip(entry.raw)
  IN text # <<>> /\ text[Len(text)] \in {"/", "\\"}

Emitted(op) == op \in Range(plan.operations)

\* C26: in a replace run of m original and n edited entries, m # n, the
\* first min(m, n) originals each get a Move to the edited entry at the
\* same place of the run, the originals left each get a Delete, and the
\* edited entries left each get a create, CreateDir when the line ended
\* with a slash or a backslash and CreateFile when not.
C26_UnequalReplaceRuns ==
  Planned =>
    \A run \in UnequalRuns :
      /\ \A k \in 0..(PairCount(run) - 1) :
           Emitted(Operation("move", original[run.i1 + k + 1].path,
                             plan.edited_entries[run.j1 + k + 1].path,
                             original[run.i1 + k + 1].is_dir))
      /\ \A k \in PairCount(run)..(run.i2 - run.i1 - 1) :
           Emitted(Operation("delete", original[run.i1 + k + 1].path, None,
                             original[run.i1 + k + 1].is_dir))
      /\ \A k \in PairCount(run)..(run.j2 - run.j1 - 1) :
           LET entry == plan.edited_entries[run.j1 + k + 1]
           IN Emitted(Operation(IF WrittenAsDir(entry) THEN "create_dir"
                                ELSE "create_file",
                                None, entry.path, WrittenAsDir(entry)))

(***************************************************************************)
(* Claims about validate_plan's checks of parents and of existing targets  *)
(* (checked under SpecPlanDirs).                                           *)
(***************************************************************************)
\* the operations validate_plan checks the parent of
Makes(op) ==
  op.op_type \in {"move", "create_file", "create_dir"} /\ op.target # None

\* the targets of the plan's CreateDirs and their ancestors up to the root
CreatedDirs ==
  UNION {AncestorsUpTo(Root, Ops[i].target) :
           i \in {k \in 1..Len(Ops) : Ops[k].op_type = "create_dir"
                                      /\ Ops[k].target # None}}

\* C27: validate_plan reports "Target parent does not exist." for a Move,
\* CreateFile or CreateDir exactly when the parent of its target is not on
\* disk and is no directory the plan creates (a CreateDir target or an
\* ancestor of one, up to the root).
C27_ParentCheck ==
  Validated =>
    \A i \in 1..Len(Ops) :
      Makes(Ops[i]) =>
        (Reported("Target parent does not exist.", Ops[i].target)
           <=> /\ ~Exists(fs, Parent(Ops[i].target))
               /\ Parent(Ops[i].target) \notin CreatedDirs)

\* a Move of the plan, by its place
IsMove(i) ==
  Ops[i].op_type = "move" /\ Ops[i].source # None /\ Ops[i].target # None

\* the target of the Move at place i is the source of another Move
TargetMovesAway(i) ==
  \E k \in 1..Len(Ops) : k # i /\ IsMove(k) /\ Ops[k].source = Ops[i].target

\* no other operation of the plan has the target of the one at place i
OnlyTarget(i) == \A k \in 1..Len(Ops) : k # i => Ops[k].target # Ops[i].target

\* the messages validate_plan has for a path that is already there
CollisionMessages ==
  {"Target directory already exists.", "Target is an existing directory.",
   "Target file already exists."}

\* C28: for a Move whose target is on disk, validate_plan reports "Target
\* directory already exists." when the Move is of a directory (whether or
\* not the target is moved away by the same plan), "Target is an existing
\* directory." when a file is moved onto a directory, and none of its
\* messages about a path that is in the way when a file is moved onto a
\* file (the Move being the plan's only operation with that target).
C28_MoveOntoExisting ==
  Validated =>
    \A i \in 1..Len(Ops) :
      (IsMove(i) /\ Exists(fs, Ops[i].target)) =>
        /\ Ops[i].is_dir =>
             Reported("Target directory already exists.", Ops[i].target)
        /\ (~Ops[i].is_dir /\ IsDir(fs, Ops[i].target)) =>
             Reported("Target is an existing directory.", Ops[i].target)
        /\ (~Ops[i].is_dir /\ ~IsDir(fs, Ops[i].target) /\ OnlyTarget(i)) =>
             \A m \in CollisionMessages : ~Reported(m, Ops[i].target)

\* a validated plan that swaps two directories: each Move's target is the
\* other's source, and both are reported
C28_Witness ==
  /\ Validated
  /\ \E i, k \in 1..Len(Ops) :
       /\ IsMove(i) /\ IsMove(k) /\ Ops[i].is_dir /\ Ops[k].is_dir
       /\ Ops[i].target = Ops[k].source /\ Ops[k].target = Ops[i].source
       /\ TargetMovesAway(i) /\ TargetMovesAway(k)
       /\ Reported("Target directory already exists.", Ops[i].target)
       /\ Reported("Target directory already exists.", Ops[k].target)

(***************************************************************************)
(* Claims about the lines compute_plan cannot parse (checked under         *)
(* SpecPlanParse).                                                         *)
(***************************************************************************)
\* the line at place k, trimmed
Trimmed(k) == Strip(lines[k])

\* the trimmed line starts with the sentinel in any letter case
HasSentinel(k) ==
  /\ Len(Trimmed(k)) >= Len(DELETE_MARKER)
  /\ \A n \in 1..Len(DELETE_MARKER) : UpperChar(Trimmed(k)[n]) = DELETE_MARKER[n]

\* what follows the sentinel, trimmed
Remainder(k) == Strip(DropFirst(Trimmed(k), Len(DELETE_MARKER)))

\* the path a text names under the root
NamedPath(text) ==
  LET bare == RStripSet(Strip(text), {"/", "\\"})
  IN Resolve(IF IsAbsoluteText(bare) THEN TextParts(bare)
             ELSE Root \o TextParts(bare))

\* the one error a text that names no entry is answered with, "" when it
\* names one
Fault(text) ==
  IF RStripSet(Strip(text), {"/", "\\"}) = <<>>
    THEN "Edited line is empty after trimming."
  ELSE IF ~IsUnder(NamedPath(text), Root) THEN "Path escapes the current root."
  ELSE IF NamedPath(text) = Root THEN "Path resolves to the root directory."
  ELSE ""

\* the error of the marker line at place k, "" when its path is good
MarkerFault(k) ==
  IF Remainder(k) = <<>> THEN "Delete marker missing a path."
  ELSE Fault(Remainder(k))

\* the places of the marker lines, and of those whose path is good
MarkerPlaces == {k \in 1..Len(lines) : HasSentinel(k)}

GoodMarkerPlaces == {k \in MarkerPlaces : MarkerFault(k) = ""}

\* the places of the normal lines that are not blank
NormalPlaces == {k \in 1..Len(lines) : Trimmed(k) # <<>> /\ ~HasSentinel(k)}

\* the places of the lines that get a parse error, and the error of each
FaultyPlaces ==
  {k \in MarkerPlaces : MarkerFault(k) # ""}
  \cup {k \in NormalPlaces : Fault(lines[k]) # ""}

FaultAt(k) == IF HasSentinel(k) THEN MarkerFault(k) ELSE Fault(lines[k])

\* the parse errors of the plan that the line loop recorded: the others
\* report a marker that is in conflict
LineErrors ==
  SelectIdx(plan.parse_errors,
            LAMBDA i : plan.parse_errors[i].message \notin ConflictMessages)

\* the places of a set, in line order
InOrder(places) == SelectIdx([k \in 1..Len(lines) |-> k], LAMBDA k : k \in places)

\* C29: the lines that start with "[DELETE]" in any letter case, once
\* trimmed, are the delete markers.  A marker whose path is good yields a
\* DeleteMarker with the path, rel and norm the text after the sentinel has
\* as a normal line; a marker whose path is missing, made of slashes,
\* outside the root or the root itself yields one parse error and no
\* DeleteMarker; no marker line yields an EditedEntry, and so none is the
\* target of a create.
C29_MarkerParsing ==
  Planned =>
    /\ Len(plan.delete_markers) = Cardinality(GoodMarkerPlaces)
    /\ \A n \in 1..Len(plan.delete_markers) :
         LET k == InOrder(GoodMarkerPlaces)[n]
             marker == plan.delete_markers[n]
         IN /\ marker.raw = Trimmed(k)
            /\ marker.path = NamedPath(Remainder(k))
            /\ marker.rel = RelativeTo(marker.path, Root)
            /\ marker.norm = JoinWith(marker.rel, <<"/">>)
    /\ Len(LineErrors) = Cardinality(FaultyPlaces)
    /\ \A n \in 1..Len(LineErrors) :
         LineErrors[n].message = FaultAt(InOrder(FaultyPlaces)[n])
    /\ \A n \in 1..Len(plan.edited_entries) :
         \E k \in NormalPlaces : plan.edited_entries[n].raw = lines[k]
    /\ \A k \in MarkerPlaces :
         /\ \A n \in 1..Len(plan.edited_entries) :
              plan.edited_entries[n].raw # lines[k]
         /\ \A i \in 1..Len(Ops) :
              Ops[i].op_type \in {"create_file", "create_dir"} =>
                \E n \in 1..Len(plan.edited_entries) :
                  /\ plan.edited_entries[n].path = Ops[i].target
                  /\ plan.edited_entries[n].raw # lines[k]

\* a plan made from a marker in small letters with a good path, a marker
\* without a path, one whose path leaves the root and one whose path is
\* the root
C29_Witness ==
  /\ Planned
  /\ \E k \in GoodMarkerPlaces : ~IsDeleteMarkerExact(Trimmed(k))
  /\ plan.delete_markers # <<>>
  /\ \E k \in MarkerPlaces : MarkerFault(k) = "Delete marker missing a path."
  /\ \E k \in MarkerPlaces :
       MarkerFault(k) \in {"Path escapes the current root.",
                           "Path resolves to the root directory."}
  /\ Len(LineErrors) = 2

\* the places of the normal lines that do not parse
BadNormalPlaces == {k \in NormalPlaces : Fault(lines[k]) # ""}

\* the buffer without them
WithoutBadLines == SelectIdx(lines, LAMBDA k : k \notin BadNormalPlaces)

\* the plan of the buffer without them
PlanWithout == compute_plan(Root, original, WithoutBadLines)

\* the places in plan.parse_errors of the errors of the normal lines that
\* do not parse: the line loop's errors come first, in line order
BadLineErrorPlaces ==
  {n \in 1..Len(LineErrors) : InOrder(FaultyPlaces)[n] \in BadNormalPlaces}

\* the plan has the entries, markers and operations of the plan without,
\* and its parse errors once those at the places bad are left out; each
\* error at a place of bad is the one of its line
SamePlanBut(without, bad, faulty) ==
  /\ plan.edited_entries = without.edited_entries
  /\ plan.delete_markers = without.delete_markers
  /\ plan.operations = without.operations
  /\ Len(plan.parse_errors) = Len(without.parse_errors) + Cardinality(bad)
  /\ \A n \in bad : plan.parse_errors[n].message = Fault(lines[faulty[n]])
  /\ SelectIdx(plan.parse_errors, LAMBDA n : n \notin bad) = without.parse_errors

\* C30: a normal line that is only slashes once trimmed, names a path
\* outside the root or names the root adds exactly one parse error, yields
\* no EditedEntry and is the target of no operation; the entries, markers,
\* operations and other errors of the plan are those of the buffer without
\* the line.
C30_BadLineExcluded ==
  Planned =>
    /\ Cardinality(BadLineErrorPlaces) = Cardinality(BadNormalPlaces)
    /\ SamePlanBut(PlanWithout, BadLineErrorPlaces, InOrder(FaultyPlaces))
    /\ \A k \in BadNormalPlaces :
         /\ \A n \in 1..Len(plan.edited_entries) :
              plan.edited_entries[n].raw # lines[k]
         /\ \A i \in 1..Len(Ops) : Ops[i].target # NamedPath(lines[k])

\* a plan with operations, made from a buffer whose middle line does not
\* parse and whose other lines name entries
C30_Witness ==
  /\ Planned
  /\ Len(lines) = 3
  /\ BadNormalPlaces = {2}
  /\ Fault(lines[2]) = "Path escapes the current root."
  /\ Len(plan.edited_entries) = 2
  /\ plan.parse_errors # <<>>
  /\ \E i \in 1..Len(Ops) : Ops[i].op_type = "move"

(***************************************************************************)
(* Claims about the delete phase on nested directories (checked under      *)
(* SpecApplyDeletes).                                                      *)
(***************************************************************************)
\* what a directory holds when apply_plan begins
ChildrenAtStart(dir) == {q \in DOMAIN fs0 : q # <<>> /\ Parent(q) = dir /\ q # dir}

\* the plan deletes the path, as the kind it is when apply_plan begins
PlannedDelete(q) ==
  \E k \in 1..Len(Ops) :
    /\ Ops[k].op_type = "delete"
    /\ Ops[k].source = q
    /\ Ops[k].is_dir = IsDir(fs0, q)

\* the Delete at place i is of a directory all of whose children the plan
\* deletes
DeletesEmptiedDir(i) ==
  /\ Ops[i].op_type = "delete"
  /\ Ops[i].is_dir
  /\ IsDir(fs0, Ops[i].source)
  /\ ChildrenAtStart(Ops[i].source) # {}
  /\ \A q \in ChildrenAtStart(Ops[i].source) : PlannedDelete(q)

\* C31: a directory Delete whose children are all Deletes of the same
\* plan, files and directories alike and wherever they stand in
\* plan.operations, returns Ok.
C31_EmptiedDirDeleted ==
  Finished =>
    \A i \in 1..Len(Ops) :
      DeletesEmptiedDir(i) => ResultOf(i).status = "ok"

(***************************************************************************)
(* Claims about creates that lie under one another (checked under          *)
(* SpecApplyNested).                                                       *)
(***************************************************************************)
\* the places of the plan's creates
CreatePlaces == {i \in 1..Len(Ops) : Ops[i].op_type \in {"create_dir", "create_file"}}

\* the creates have distinct targets, none on disk when apply_plan begins,
\* one of them lies under another, and what lies above a target is to be a
\* directory
NestedCreates ==
  /\ \A i, k \in CreatePlaces : i # k => Ops[i].target # Ops[k].target
  /\ \A i \in CreatePlaces : ~Exists(fs0, Ops[i].target)
  /\ \E i, k \in CreatePlaces :
       i # k /\ IsUnder(Ops[i].target, Ops[k].target)
  /\ \A i, k \in CreatePlaces :
       (i # k /\ IsUnder(Ops[i].target, Ops[k].target)) => Ops[k].op_type = "create_dir"

Accepted == Validated /\ errors = <<>>

\* C33: in a plan that validate_plan accepts, no Delete's source is the
\* target of a Move.
C33_NoDeleteOfMoveTarget ==
  Accepted =>
    \A i, k \in 1..Len(Ops) :
      (Ops[i].op_type = "delete" /\ Ops[k].op_type = "move")
        => Ops[i].source # Ops[k].target

\* what the executor says when the parent of a target is not a directory
\* that is there
ParentMessages ==
  {"Target parent does not exist.", "Not a directory", "No such file or directory"}

\* C34: when a plan that validate_plan accepts is applied to the same
\* filesystem, no Move and no create fails for want of the directory its
\* target lies in.
C34_ParentsThereWhenApplied ==
  Finished =>
    \A i \in 1..Len(Ops) :
      (Ops[i].op_type \in {"move", "create_file", "create_dir"}
         /\ ResultOf(i).status = "error")
        => ResultOf(i).message \notin ParentMessages

(***************************************************************************)
(* Claims about a failed move step and the file it leaves behind (checked  *)
(* under SpecApplySwap)                                                    *)
(***************************************************************************)
\* the move step that the executor is about to run: the head of the ordered
\* steps, whose Move has failed no earlier step
RunsMoveStep ==
  /\ pc = "moves"
  /\ todo # <<>>
  /\ Head(todo).origin \in DOMAIN status_by_id
  /\ status_by_id[Head(todo).origin].status # "error"

\* Move o has failed and its file still sits at its source as it was at the
\* start: the step that failed was the one leaving the source
FailedAtSource(o) ==
  /\ o \in DOMAIN status_by_id
  /\ status_by_id[o].status = "error"
  /\ Exists(fs0, Ops[o].source)
  /\ Exists(fs, Ops[o].source)
  /\ fs[Ops[o].source] = fs0[Ops[o].source]

\* C35: once a move step has failed, no step of another Move renames onto or
\* replaces the path that step was leaving: the file there keeps its content
C35_FailedSourceKept ==
  [][(RunsMoveStep /\ fs' # fs) =>
       \A o \in DOMAIN Ops :
         (o # Head(todo).origin /\ FailedAtSource(o))
           => Head(todo).target # Ops[o].source]_vars

(***************************************************************************)
(* Claims about how many operations an entry takes part in (checked under  *)
(* SpecPlanDirs)                                                           *)
(***************************************************************************)
\* the operations that leave path p, and those that land on it
OpsFrom(p) == {k \in DOMAIN Ops : Ops[k].source = p}

OpsOnto(p) == {k \in DOMAIN Ops : Ops[k].target = p}

\* the parsed edited entries that name path p
EntriesNaming(p) ==
  {j \in DOMAIN plan.edited_entries : plan.edited_entries[j].path = p}

\* C36: an original entry is the source of at most one operation; the
\* operations that land on a path are no more than the edited entries naming
\* it, so an edited entry is the target of one operation at most, a Move or
\* a create; and there are no more operations than entries on both sides
C36_OneOperationPerEntry ==
  Planned =>
    /\ \A i \in DOMAIN plan.original_entries :
         Cardinality(OpsFrom(plan.original_entries[i].path)) <= 1
    /\ \A k \in DOMAIN Ops :
         /\ Ops[k].op_type \in {"move", "delete"}
              => \E i \in DOMAIN plan.original_entries :
                   plan.original_entries[i].path = Ops[k].source
         /\ Ops[k].op_type # "delete"
              => Cardinality(OpsOnto(Ops[k].target))
                   <= Cardinality(EntriesNaming(Ops[k].target))
    /\ Len(Ops) <= Len(plan.original_entries) + Len(plan.edited_entries)

\* a plan that moves one entry, deletes another and creates a third, two of
\* its lines naming the same path
C36_Witness ==
  /\ Planned
  /\ \E k \in DOMAIN Ops : Ops[k].op_type = "move"
  /\ \E k \in DOMAIN Ops : Ops[k].op_type = "delete"
  /\ \E k \in DOMAIN Ops :
       /\ Ops[k].op_type \in {"create_dir", "create_file"}
       /\ Cardinality(EntriesNaming(Ops[k].target)) > 1

(***************************************************************************)
(* Claims about the steps of one Move and the temporary names they use     *)
(* (checked under SpecApplySwap)                                           *)
(***************************************************************************)
\* the places in the list of steps that belong to the Move of origin o
StepsOf(steps, o) == {k \in DOMAIN steps : steps[k].origin = o}

\* the Move of origin o goes in one step from its source to its target, or
\* in two by way of a name that is no Move's target
OneOrTwoSteps(steps, o) ==
  LET mine == StepsOf(steps, o)
      first == CHOOSE k \in mine : \A j \in mine : k <= j
      last == CHOOSE k \in mine : \A j \in mine : j <= k
  IN /\ Cardinality(mine) \in {1, 2}
     /\ steps[first].source = Ops[o].source
     /\ steps[last].target = Ops[o].target
     /\ first # last =>
          /\ steps[first].target = steps[last].source
          /\ \A k \in DOMAIN Ops : steps[first].target # Ops[k].target

\* the paths on disk that were not there at the start and that no operation
\* of the plan names as its target
Leftovers ==
  {q \in DOMAIN fs : q \notin DOMAIN fs0 /\ \A k \in DOMAIN Ops : Ops[k].target # q}

NoMoveFailed ==
  \A k \in DOMAIN results :
    results[k].operation.op_type = "move" => results[k].status # "error"

Unedited ==
  lines = [i \in 1..Len(original) |->
             CleanBufferLineForPlan(FormatEntryLine(Root, original[i]))]

\* every name listed passes the component rules, and no two names listed
\* have the same path key
NamesAccepted ==
  /\ \A i \in DOMAIN original : ValidateRelativePath(Root, original[i].path) = ""
  /\ \A i, j \in DOMAIN original :
       i # j => PathKey(original[i].path) # PathKey(original[j].path)

\* C38 as stated: the plan of the unedited buffer validates without errors,
\* whatever the names of the entries
C38_UneditedValidatesAnyNames ==
  (Validated /\ Unedited) => errors = <<>>

\* C38: the plan of the unedited buffer has no operation and validates
\* without errors when every listed name passes the component rules and the
\* names are pairwise distinct as path keys
C38_UneditedValidates ==
  (Validated /\ Unedited /\ NamesAccepted) => (Ops = <<>> /\ errors = <<>>)

\* the unedited buffer of a directory and a file, validated
C38_Witness ==
  /\ Validated
  /\ Unedited
  /\ NamesAccepted
  /\ Len(original) >= 2
  /\ \E i \in DOMAIN original : original[i].is_dir
====
